---- MODULE Spec2Model ----
(***************************************************************************)
(* Model of the seed-data pipeline of analytical-ecosystem:                *)
(*   cli/seed/normalizer.py   DataNormalizer                               *)
(*   cli/seed/generators.py   DataGenerator.generate_batches               *)
(*   cli/seed/backends/*.py   insert_batch of the four backends            *)
(*   cli/commands.py          cmd_seed (one seeding session)               *)
(* A Python dict is a function from its keys to its values; a dict whose   *)
(* order matters (customers, products) is the sequence of its items.       *)
(***************************************************************************)
EXTENDS Integers, Sequences, FiniteSets, TLC

VARIABLES
    \* DataNormalizer (normalizer.py:9-13)
    customers, products, customer_id_counter, product_id_counter,
    \* the normalize_record calls made on the instance since it was fresh or reset
    normLog,
    \* the generator object of DataGenerator.generate_batches (generators.py:68-78)
    \* and the batches it has yielded so far
    gen, yielded,
    \* the backend instance (name, connection handle, DuckDB's _id_counters), the
    \* tables held by its storage engine (or the handles its driver has opened and
    \* closed), and its last insert_batch call (or its last call of any operation)
    backend, store, ins,
    \* one seeding session (cmd_seed, commands.py:373-568; run_generation,
    \* ui.py:234-401): the statement it is at, its locals, the value returned, the
    \* backend calls made, the messages printed, and the locals of its loops
    pc, session, result, calls, output,
    all_batches, normalized_batches, batch_num, total_inserted,
    \* one generate_record call (generators.py:32-62): the DataGenerator it is
    \* made on, the record built so far, and the index of the field the loop is at
    generator, built, field_index,
    \* what the last reset() call on the normalizer cleared: the number of customers
    \* and of products it held
    discarded,
    \* the insert_batch calls made on one DuckDBBackend instance, each with the
    \* MAX(id) it read and the ids it assigned (duckdb.py:161-176)
    id_log,
    \* the last is_healthy() call on the backend (base.py:60-67,
    \* elasticsearch.py:115-122)
    health

normVars == <<customers, products, customer_id_counter, product_id_counter, normLog>>
genVars == <<gen, yielded>>
beVars == <<backend, store, ins>>
sessVars == <<pc, session, result, calls, output,
              all_batches, normalized_batches, batch_num, total_inserted>>

recVars == <<generator, built, field_index>>
probeVars == <<id_log, health>>
moreVars == <<recVars, discarded, probeVars>>
vars == <<normVars, genVars, beVars, sessVars, moreVars>>

-----------------------------------------------------------------------------
(* Python values *)

\* None, as a value of a str-typed field
None == "<None>"

\* _extract_customer / _extract_product return None (an int | None result)
NoId == 0

\* truth value of a str | None value: None and "" are false
Truthy(v) == v # None /\ v # ""

\* truth value of an int | None value: None and 0 are false
TruthyId(i) == i # NoId

\* a or b
Or(a, b) == IF Truthy(a) THEN a ELSE b

\* dict.get(key, default)
GetOr(d, k, default) == IF k \in DOMAIN d THEN d[k] ELSE default

\* dict.get(key)
Get(d, k) == GetOr(d, k, None)

\* d[k] = v
Put(d, k, v) == [x \in (DOMAIN d) \cup {k} |-> IF x = k THEN v ELSE d[x]]

\* d.pop(k, None)
Pop(d, k) == [x \in (DOMAIN d) \ {k} |-> d[x]]

RECURSIVE PopAll(_, _)
\* for field in fields: d.pop(field, None)
PopAll(d, fields) ==
    IF fields = <<>> THEN d ELSE PopAll(Pop(d, Head(fields)), Tail(fields))

\* key in an ordered dict (a sequence of items [key, value])
HasKey(items, k) == \E i \in 1..Len(items) : items[i].key = k

\* items[k], for a key the dict holds
Lookup(items, k) == items[CHOOSE i \in 1..Len(items) : items[i].key = k].value

\* items[k] = v: a new key goes last, a held key keeps its place
SetItem(items, k, v) ==
    IF HasKey(items, k)
    THEN [i \in 1..Len(items) |-> IF items[i].key = k THEN [key |-> k, value |-> v] ELSE items[i]]
    ELSE Append(items, [key |-> k, value |-> v])

\* list(items.values())
Values(items) == [i \in 1..Len(items) |-> items[i].value]

Min(a, b) == IF a <= b THEN a ELSE b

-----------------------------------------------------------------------------
(* DataNormalizer *)

\* the instance's fields, as one value
NormState == [customers |-> customers, products |-> products,
              customer_id_counter |-> customer_id_counter,
              product_id_counter |-> product_id_counter]

\* __init__
FreshNormalizer == [customers |-> <<>>, products |-> <<>>,
                    customer_id_counter |-> 1, product_id_counter |-> 1]

\* _extract_customer without the lookup of lines 22-24: every call creates
extract_customer_nolookup(ns, record) ==
    LET customer_email == Get(record, "customer_email") IN
    IF ~Truthy(customer_email) THEN [ns |-> ns, id |-> NoId]
    ELSE LET customer == [id |-> ns.customer_id_counter,
                          name |-> GetOr(record, "customer_name", ""),
                          email |-> customer_email,
                          phone |-> GetOr(record, "customer_phone", "")]
         IN [ns |-> [ns EXCEPT
                        !.customers = SetItem(@, customer_email, customer),
                        !.customer_id_counter = @ + 1],
             id |-> customer.id]

\* _extract_customer refreshing a known customer from the later record
extract_customer_upsert(ns, record) ==
    LET customer_email == Get(record, "customer_email") IN
    IF ~Truthy(customer_email) THEN [ns |-> ns, id |-> NoId]
    ELSE LET known == HasKey(ns.customers, customer_email)
             customer == [id |-> IF known THEN Lookup(ns.customers, customer_email).id
                                 ELSE ns.customer_id_counter,
                          name |-> GetOr(record, "customer_name", ""),
                          email |-> customer_email,
                          phone |-> GetOr(record, "customer_phone", "")]
         IN [ns |-> [ns EXCEPT
                        !.customers = SetItem(@, customer_email, customer),
                        !.customer_id_counter = IF known THEN @ ELSE @ + 1],
             id |-> customer.id]

\* _extract_customer without the test of lines 19-20: an empty or missing email
\* is a key like any other
extract_customer_any_email(ns, record) ==
    LET customer_email == Get(record, "customer_email") IN
    IF HasKey(ns.customers, customer_email)
    THEN [ns |-> ns, id |-> Lookup(ns.customers, customer_email).id]
    ELSE LET customer == [id |-> ns.customer_id_counter,
                          name |-> GetOr(record, "customer_name", ""),
                          email |-> customer_email,
                          phone |-> GetOr(record, "customer_phone", "")]
         IN [ns |-> [ns EXCEPT
                        !.customers = SetItem(@, customer_email, customer),
                        !.customer_id_counter = @ + 1],
             id |-> customer.id]

\* _extract_customer: the instance after the call, and the id returned
extract_customer(ns, record) ==
    LET customer_email == Get(record, "customer_email") IN
    IF ~Truthy(customer_email) THEN [ns |-> ns, id |-> NoId]
    ELSE IF HasKey(ns.customers, customer_email)
    THEN [ns |-> ns, id |-> Lookup(ns.customers, customer_email).id]
    ELSE LET customer == [id |-> ns.customer_id_counter,
                          name |-> GetOr(record, "customer_name", ""),
                          email |-> customer_email,
                          phone |-> GetOr(record, "customer_phone", "")]
         IN [ns |-> [ns EXCEPT
                        !.customers = SetItem(@, customer_email, customer),
                        !.customer_id_counter = @ + 1],
             id |-> customer.id]

\* _extract_product drawing its ids from the customer counter
extract_product_shared_counter(ns, record) ==
    LET product_sku == Or(Get(record, "product_sku"), Get(record, "sku")) IN
    IF ~Truthy(product_sku) THEN [ns |-> ns, id |-> NoId]
    ELSE IF HasKey(ns.products, product_sku)
    THEN [ns |-> ns, id |-> Lookup(ns.products, product_sku).id]
    ELSE LET product == [id |-> ns.customer_id_counter,
                         sku |-> product_sku,
                         name |-> Or(Get(record, "product_name"), GetOr(record, "name", ""))]
         IN [ns |-> [ns EXCEPT
                        !.products = SetItem(@, product_sku, product),
                        !.customer_id_counter = @ + 1],
             id |-> product.id]

\* _extract_product: the instance after the call, and the id returned
extract_product(ns, record) ==
    LET product_sku == Or(Get(record, "product_sku"), Get(record, "sku")) IN
    IF ~Truthy(product_sku) THEN [ns |-> ns, id |-> NoId]
    ELSE IF HasKey(ns.products, product_sku)
    THEN [ns |-> ns, id |-> Lookup(ns.products, product_sku).id]
    ELSE LET product == [id |-> ns.product_id_counter,
                         sku |-> product_sku,
                         name |-> Or(Get(record, "product_name"), GetOr(record, "name", ""))]
         IN [ns |-> [ns EXCEPT
                        !.products = SetItem(@, product_sku, product),
                        !.product_id_counter = @ + 1],
             id |-> product.id]

\* normalize_record extracting the customer whatever the schema name
normalize_any_schema(ns, record, schema_name) ==
    LET c == extract_customer(ns, record)
    IN [ns |-> c.ns,
        out |-> IF TruthyId(c.id)
                THEN PopAll(Put(record, "customer_id", c.id),
                            <<"customer_name", "customer_email", "customer_phone">>)
                ELSE record]

\* normalize_record: the instance after the call, and the record returned
normalize(ns, record, schema_name) ==
    LET c == IF schema_name \in {"sales_orders", "invoices"}
             THEN extract_customer(ns, record) ELSE [ns |-> ns, id |-> NoId]
        n1 == IF TruthyId(c.id)
              THEN PopAll(Put(record, "customer_id", c.id),
                          <<"customer_name", "customer_email", "customer_phone">>)
              ELSE record
        p == IF schema_name = "manufacturing_orders"
             THEN extract_product(c.ns, record) ELSE [ns |-> c.ns, id |-> NoId]
        n2 == IF TruthyId(p.id)
              THEN PopAll(Put(n1, "product_id", p.id), <<"product_name", "product_sku">>)
              ELSE n1
    IN [ns |-> p.ns, out |-> n2]

\* get_customers_table / get_products_table
get_customers_table(ns) == Values(ns.customers)
get_products_table(ns) == Values(ns.products)

\* reset that leaves the counters where they are
reset_state_keeps_counters(ns) == [ns EXCEPT !.customers = <<>>, !.products = <<>>]

\* reset
reset_state(ns) == [ns EXCEPT !.customers = <<>>, !.products = <<>>,
                              !.customer_id_counter = 1, !.product_id_counter = 1]

\* a fresh instance on which no call was made
InitNorm ==
    /\ customers = FreshNormalizer.customers
    /\ products = FreshNormalizer.products
    /\ customer_id_counter = FreshNormalizer.customer_id_counter
    /\ product_id_counter = FreshNormalizer.product_id_counter
    /\ normLog = <<>>

-----------------------------------------------------------------------------
(* DataGenerator *)

Emails == {"a@x", "b@x"}
Skus == {"SKU-1", "SKU-2"}

\* generate_record: the records one call can return for a schema; of the values
\* Faker draws, only the dedup keys vary
GenRecords(schema_name) ==
    CASE schema_name = "contacts" ->
            {("first_name" :> "John") @@ ("email" :> e) : e \in Emails}
      [] schema_name \in {"sales_orders", "invoices"} ->
            {("customer_name" :> "Ann") @@ ("customer_email" :> e)
             @@ ("customer_phone" :> "555-1") @@ ("total" :> "10") : e \in Emails}
      [] schema_name = "manufacturing_orders" ->
            {("product_name" :> "Widget") @@ ("product_sku" :> k)
             @@ ("quantity" :> "5") : k \in Skus}
      [] OTHER -> {("sku" :> k) @@ ("name" :> "Widget") : k \in Skus}

\* generate_batch(count): the lists of count records (range(count) is empty for
\* count <= 0)
generate_batch(schema_name, n) ==
    IF n <= 0 THEN {<<>>} ELSE [1..n -> GenRecords(schema_name)]

\* current_batch = batch_size, whatever remains
current_batch_unclamped(batch_size, remaining) == batch_size

\* current_batch = min(batch_size, remaining)
current_batch(batch_size, remaining) == Min(batch_size, remaining)

\* generate_batches(total, batch_size): the generator object before its first next()
generate_batches(schema_name, total, batch_size) ==
    [schema |-> schema_name, total |-> total, batch_size |-> batch_size,
     remaining |-> total, current_batch |-> 0, at |-> "start"]

\* the generator resumed by next(): the statement after the yield runs first
resumed(g) ==
    IF g.at = "yield" THEN [g EXCEPT !.remaining = @ - g.current_batch] ELSE g

\* next() raises StopIteration
gen_stops(g) == g.at = "done" \/ resumed(g).remaining <= 0

\* the generator after a next() that raised StopIteration
gen_stopped(g) == [resumed(g) EXCEPT !.at = "done"]

\* the generator suspended at the yield of its next batch
gen_yielding(g) ==
    [resumed(g) EXCEPT !.current_batch = current_batch(g.batch_size, resumed(g).remaining),
                       !.at = "yield"]

-----------------------------------------------------------------------------
(* Backends *)

\* BACKENDS
BACKENDS == {"postgres", "mysql", "elasticsearch", "duckdb"}

\* supports_normalization of each backend class
supports_normalization(name) == name # "elasticsearch"

\* __init__ of a backend class: no connection, no id counter
NewBackend(name) == [name |-> name, conn |-> "None", id_counters |-> <<>>]

\* the columns declared UNIQUE in a schema's sql_type
UniqueFields(schema_name) ==
    CASE schema_name = "sales_orders" -> {"order_number"}
      [] schema_name = "manufacturing_orders" -> {"work_order_number"}
      [] schema_name = "products" -> {"sku"}
      [] schema_name = "invoices" -> {"invoice_number"}
      [] OTHER -> {}

\* f"{schema.table_name}_normalized"
NormalizedName(table_name) ==
    CASE table_name = "contacts" -> "contacts_normalized"
      [] table_name = "sales_orders" -> "sales_orders_normalized"
      [] table_name = "manufacturing_orders" -> "manufacturing_orders_normalized"
      [] table_name = "products" -> "products_normalized"
      [] table_name = "invoices" -> "invoices_normalized"

\* the table an operation of a relational backend addresses
TableName(schema_name, normalized) ==
    IF normalized THEN NormalizedName(schema_name) ELSE schema_name

\* connect(): a handle is opened only when none is held
connected(b) == [b EXCEPT !.conn = "open"]

\* create_table on an engine that does not hold the table: the relational engines
\* enforce the UNIQUE columns and the primary key, an Elasticsearch index nothing
create_table(b, st, schema_name, normalized) ==
    LET t == IF b.name = "elasticsearch" THEN schema_name
             ELSE TableName(schema_name, normalized)
    IN IF t \in DOMAIN st THEN st
       ELSE (t :> [unique |-> IF b.name = "elasticsearch" THEN {}
                              ELSE UniqueFields(schema_name),
                   rows |-> <<>>]) @@ st

\* the row INSERT INTO t (columns) VALUES (...) offers for a record
RowOf(record, columns) == [c \in columns |-> Get(record, c)]

\* the engine finds a row that holds the same value in a UNIQUE column, or the
\* same primary key
Conflicts(row, table) ==
    \E i \in 1..Len(table.rows) :
        \/ \E u \in table.unique \cap DOMAIN row :
              /\ u \in DOMAIN table.rows[i]
              /\ row[u] # None
              /\ table.rows[i][u] = row[u]
        \/ /\ "id" \in DOMAIN row
           /\ "id" \in DOMAIN table.rows[i]
           /\ table.rows[i]["id"] = row["id"]

RECURSIVE InsertIgnore(_, _)
\* INSERT ... ON CONFLICT DO NOTHING / INSERT IGNORE / INSERT OR IGNORE, row by
\* row: the table afterwards and the rowcount of each statement
InsertIgnore(table, rows) ==
    IF rows = <<>> THEN [table |-> table, rowcounts |-> <<>>]
    ELSE LET hit == Conflicts(Head(rows), table)
             t1 == IF hit THEN table ELSE [table EXCEPT !.rows = Append(@, Head(rows))]
             rest == InsertIgnore(t1, Tail(rows))
         IN [table |-> rest.table,
             rowcounts |-> <<IF hit THEN 0 ELSE 1>> \o rest.rowcounts]

RECURSIVE Sum(_)
Sum(ns) == IF ns = <<>> THEN 0 ELSE Head(ns) + Sum(Tail(ns))

\* PostgresBackend.insert_batch and MySQLBackend.insert_batch: the columns are the
\* keys of the first record but id; the rowcounts are added up
sql_insert_batch(b, st, schema_name, records, normalized) ==
    IF records = <<>> THEN [backend |-> b, store |-> st, returned |-> 0]
    ELSE LET t == TableName(schema_name, normalized)
             columns == (DOMAIN records[1]) \ {"id"}
             rows == [i \in 1..Len(records) |-> RowOf(records[i], columns)]
             done == InsertIgnore(st[t], rows)
         IN [backend |-> connected(b),
             store |-> [st EXCEPT ![t] = done.table],
             returned |-> Sum(done.rowcounts)]

\* SELECT MAX(id) FROM t, or 0
MaxId(table) ==
    IF table.rows = <<>> THEN 0
    ELSE LET ids == {table.rows[i]["id"] : i \in 1..Len(table.rows)}
         IN CHOOSE m \in ids : \A x \in ids : x <= m

\* the value DuckDBBackend.insert_batch returns: len(records)
duckdb_returned(records, rowcounts) == Len(records)

\* record.get("id") is None: the record has no id key, or an id of None
lacks_id(record) == GetOr(record, "id", NoId) = NoId

\* the counters after "if table_name not in self._id_counters": the table's counter
\* is created from SELECT MAX(id) + 1 when the instance holds none for it
id_counter_reseeded(b, st, t) == (t :> MaxId(st[t]) + 1) @@ b.id_counters

id_counter_seeded(b, st, t) ==
    IF t \notin DOMAIN b.id_counters
    THEN (t :> MaxId(st[t]) + 1) @@ b.id_counters
    ELSE b.id_counters

\* DuckDBBackend.insert_batch: records without id get the next ids of the table's
\* counter, seeded from MAX(id) + 1 at first use; the columns are the keys of the
\* first record, id included. The records are given their ids in place: max_read
\* holds the MAX(id) the call read, if it read one, and assigned the ids it gave.
duckdb_insert_batch(b, st, schema_name, records, normalized) ==
    IF records = <<>>
    THEN [backend |-> b, store |-> st, returned |-> 0,
          max_read |-> <<>>, assigned |-> <<>>]
    ELSE LET t == TableName(schema_name, normalized)
             needs_id == \E i \in 1..Len(records) : lacks_id(records[i])
             counters == IF needs_id THEN id_counter_seeded(b, st, t)
                         ELSE b.id_counters
             \* the records before position i that are given an id
             given(i) == Cardinality({j \in 1..(i - 1) : lacks_id(records[j])})
             withId == [i \in 1..Len(records) |->
                          IF ~lacks_id(records[i]) THEN records[i]
                          ELSE Put(records[i], "id", counters[t] + given(i))]
             columns == DOMAIN withId[1]
             rows == [i \in 1..Len(records) |-> RowOf(withId[i], columns)]
             done == InsertIgnore(st[t], rows)
             got == SelectSeq([i \in 1..Len(records) |->
                                  [id |-> withId[i]["id"], lacked |-> lacks_id(records[i])]],
                              LAMBDA x : x.lacked)
         IN [backend |-> [connected(b) EXCEPT !.id_counters =
                            IF needs_id
                            THEN [counters EXCEPT ![t] = @ + given(Len(records) + 1)]
                            ELSE counters],
             store |-> [st EXCEPT ![t] = done.table],
             returned |-> duckdb_returned(records, done.rowcounts),
             max_read |-> IF needs_id /\ t \notin DOMAIN b.id_counters
                          THEN <<MaxId(st[t])>> ELSE <<>>,
             assigned |-> [k \in 1..Len(got) |-> got[k].id]]

\* the response of client.bulk when the items at the positions in failed are
\* rejected by the engine
BulkResponse(n, failed) ==
    [errors |-> failed # {},
     items |-> [i \in 1..n |-> IF i \in failed THEN "error" ELSE "created"]]

\* an insert_batch that takes the bulk request for indexed as a whole
es_insert_batch_ignores_errors(b, st, schema_name, records, failed) ==
    IF records = <<>> THEN [backend |-> b, store |-> st, returned |-> 0]
    ELSE LET indexed == SelectSeq([i \in 1..Len(records) |-> [pos |-> i, doc |-> records[i]]],
                                  LAMBDA x : x.pos \notin failed)
             docs == [i \in 1..Len(indexed) |-> indexed[i].doc]
         IN [backend |-> connected(b),
             store |-> [st EXCEPT ![schema_name].rows = @ \o docs],
             returned |-> Len(records)]

\* ElasticsearchBackend.insert_batch: every document is indexed under an id of the
\* engine's; the count is read from the bulk response
es_insert_batch(b, st, schema_name, records, failed) ==
    IF records = <<>> THEN [backend |-> b, store |-> st, returned |-> 0]
    ELSE LET response == BulkResponse(Len(records), failed)
             indexed == SelectSeq([i \in 1..Len(records) |-> [pos |-> i, doc |-> records[i]]],
                                  LAMBDA x : x.pos \notin failed)
             docs == [i \in 1..Len(indexed) |-> indexed[i].doc]
         IN [backend |-> connected(b),
             store |-> [st EXCEPT ![schema_name].rows = @ \o docs],
             returned |-> IF response.errors
                          THEN Cardinality({i \in 1..Len(response.items) :
                                               response.items[i] # "error"})
                          ELSE Len(records)]

\* insert_batch of the instance's class
backend_insert_batch(b, st, schema_name, records, normalized, failed) ==
    CASE b.name = "elasticsearch" -> es_insert_batch(b, st, schema_name, records, failed)
      [] b.name = "duckdb" -> duckdb_insert_batch(b, st, schema_name, records, normalized)
      [] OTHER -> sql_insert_batch(b, st, schema_name, records, normalized)

\* no generator exists
NoGenerator == generate_batches("contacts", 0, 0)

\* no insert_batch call made
NoInsert == [calls |-> 0, batch |-> <<>>, before |-> <<>>, returned |-> 0, failed |-> {}]

\* no backend in use: an instance as constructed, an engine holding no table
InitNoBackend ==
    /\ backend = NewBackend("postgres")
    /\ store = <<>>
    /\ ins = NoInsert

\* no generate_record call is made
InitNoRecord ==
    /\ generator = [schema |-> "", start_date |-> 0, end_date |-> 0]
    /\ built = <<>>
    /\ field_index = 0

\* reset() was not called
NotReset == [customers |-> -1, products |-> -1]

InitNoReset == discarded = NotReset

\* no is_healthy call made
NotProbed == [calls |-> 0, attempted |-> <<>>, raised_in |-> "<None>", exc |-> "<None>",
              status |-> "<None>", returned |-> "<None>", propagated |-> "<None>"]

\* a backend on which no id was assigned and no is_healthy call made
InitNoProbe ==
    /\ id_log = <<>>
    /\ health = NotProbed

\* the locals of an entry point that was not called
NoSession ==
    [entry |-> "", args |-> <<>>, db |-> "", data_type |-> "", count |-> 0,
     batch_size |-> 0, normalize |-> FALSE, normalizer |-> FALSE, clear |-> FALSE,
     start_date |-> "", end_date |-> ""]

\* no seeding session is run
InitNoSession ==
    /\ pc = "idle"
    /\ session = NoSession
    /\ result = None
    /\ calls = <<>>
    /\ output = <<>>
    /\ all_batches = <<>>
    /\ normalized_batches = <<>>
    /\ batch_num = 0
    /\ total_inserted = 0

-----------------------------------------------------------------------------
(* generate_batches driven to exhaustion, for any total and batch size *)

MaxTotal == 5
MaxBatchSize == 3
\* next() calls made on a generator that never stops
MaxYields == 6

InitBatches ==
    /\ InitNorm
    /\ \E total \in 0..MaxTotal, batch_size \in 0..MaxBatchSize :
          gen = generate_batches("contacts", total, batch_size)
    /\ yielded = <<>>
    /\ InitNoBackend
    /\ InitNoSession
    /\ InitNoRecord
    /\ InitNoReset
    /\ InitNoProbe

\* next(generator) returning a batch
gen_next ==
    /\ ~gen_stops(gen)
    /\ Len(yielded) < MaxYields
    /\ gen' = gen_yielding(gen)
    /\ \E batch \in generate_batch(gen.schema, gen'.current_batch) :
          yielded' = Append(yielded, batch)
    /\ UNCHANGED <<normVars, beVars, sessVars, moreVars>>

\* next(generator) raising StopIteration
gen_exhausted ==
    /\ gen.at # "done"
    /\ gen_stops(gen)
    /\ gen' = gen_stopped(gen)
    /\ UNCHANGED <<yielded, normVars, beVars, sessVars, moreVars>>

NextBatches == gen_next \/ gen_exhausted

SpecBatches == InitBatches /\ [][NextBatches]_vars

-----------------------------------------------------------------------------
(* The normalizer driven as an API: any caller, any record, any schema name *)

\* the longest sequence of calls made on one instance before it is reset
MaxCalls == 3

rc1 == ("customer_name" :> "Ann") @@ ("customer_email" :> "a@x")
       @@ ("customer_phone" :> "555-1") @@ ("total" :> "10")
\* the same customer as rc1 under another name and phone
rc2 == ("customer_name" :> "Bob") @@ ("customer_email" :> "a@x")
       @@ ("customer_phone" :> "555-2") @@ ("total" :> "20")
\* no phone
rc3 == ("customer_name" :> "Cy") @@ ("customer_email" :> "b@x") @@ ("total" :> "10")
\* empty email
rc4 == ("customer_name" :> "Ann") @@ ("customer_email" :> "") @@ ("total" :> "10")
\* email drawn as NULL
rc5 == ("customer_name" :> "Ann") @@ ("customer_email" :> None) @@ ("total" :> "10")
\* no customer field at all
rc6 == ("total" :> "10")
rp1 == ("product_name" :> "Widget") @@ ("product_sku" :> "SKU-1") @@ ("quantity" :> "5")
\* the same product as rp1 under another name
rp2 == ("product_name" :> "Gadget") @@ ("product_sku" :> "SKU-1") @@ ("quantity" :> "7")
\* the generic field names
rp3 == ("name" :> "Gizmo") @@ ("sku" :> "SKU-2") @@ ("quantity" :> "5")
\* an empty primary SKU, the generic one set
rp4 == ("product_name" :> "") @@ ("product_sku" :> "") @@ ("name" :> "Widget")
       @@ ("sku" :> "SKU-1") @@ ("quantity" :> "5")
\* no SKU
rp5 == ("product_name" :> "Widget") @@ ("quantity" :> "5")
\* an empty SKU, no generic one
rp6 == ("product_name" :> "Widget") @@ ("product_sku" :> "") @@ ("quantity" :> "5")
rk1 == ("first_name" :> "John") @@ ("last_name" :> "Doe") @@ ("email" :> "a@x")

CustomerRecords == {rc1, rc2, rc3, rc4, rc5, rc6}
ProductRecords == {rp1, rp2, rp3, rp4, rp5, rp6}

\* the (record, schema_name) arguments tried
NormInputs ==
    (CustomerRecords \X {"sales_orders", "invoices"})
    \cup (ProductRecords \X {"manufacturing_orders"})
    \cup ({rk1, rc1, rp1} \X {"contacts"})
    \cup {<<rp3, "products">>}
    \cup {<<rc1, "manufacturing_orders">>, <<rp1, "sales_orders">>}

InitNormOnly ==
    /\ InitNorm
    /\ gen = NoGenerator
    /\ yielded = <<>>
    /\ InitNoBackend
    /\ InitNoSession
    /\ InitNoRecord
    /\ InitNoReset
    /\ InitNoProbe

SetNormState(ns) ==
    /\ customers' = ns.customers
    /\ products' = ns.products
    /\ customer_id_counter' = ns.customer_id_counter
    /\ product_id_counter' = ns.product_id_counter

normalize_record(record, schema_name) ==
    /\ Len(normLog) < MaxCalls
    /\ LET r == normalize(NormState, record, schema_name) IN
        /\ SetNormState(r.ns)
        /\ normLog' = Append(normLog, [schema |-> schema_name, rec |-> record, out |-> r.out])
    /\ UNCHANGED <<genVars, beVars, sessVars, moreVars>>

reset ==
    /\ SetNormState(reset_state(NormState))
    /\ normLog' = <<>>
    /\ UNCHANGED <<genVars, beVars, sessVars, moreVars>>

NormalizeRecord == \E arg \in NormInputs : normalize_record(arg[1], arg[2])

NextNorm == NormalizeRecord \/ reset

SpecNorm == InitNormOnly /\ [][NextNorm]_vars

-----------------------------------------------------------------------------
(* insert_batch of each backend, called on a created sales_orders table *)

\* the longest batch passed to insert_batch
MaxBatchLen == 2
\* the insert_batch calls made on one backend instance
MaxInserts == 2

OrderNumbers == {"ORD-1", "ORD-2"}

\* sales_orders records; the order number is the UNIQUE column
InsertRecords ==
    {("order_number" :> o) @@ ("customer_email" :> "a@x") @@ ("total" :> "10") :
        o \in OrderNumbers}

InsertBatches == UNION {[1..n -> InsertRecords] : n \in 0..MaxBatchLen}

InitInsert ==
    /\ InitNorm
    /\ gen = NoGenerator
    /\ yielded = <<>>
    /\ \E name \in BACKENDS :
          /\ backend = NewBackend(name)
          /\ store = create_table(backend, <<>>, "sales_orders", FALSE)
    /\ ins = NoInsert
    /\ InitNoSession
    /\ InitNoRecord
    /\ InitNoReset
    /\ InitNoProbe

\* backend.insert_batch(schema, records); of an Elasticsearch bulk request the
\* engine may reject any items
insert_batch(records, failed) ==
    /\ ins.calls < MaxInserts
    /\ backend.name # "elasticsearch" => failed = {}
    /\ LET r == backend_insert_batch(backend, store, "sales_orders", records, FALSE, failed) IN
        /\ backend' = r.backend
        /\ store' = r.store
        /\ ins' = [calls |-> ins.calls + 1, batch |-> records,
                   before |-> store["sales_orders"].rows,
                   returned |-> r.returned, failed |-> failed]
    /\ UNCHANGED <<normVars, genVars, sessVars, moreVars>>

InsertBatch ==
    \E records \in InsertBatches : \E failed \in SUBSET (1..Len(records)) :
        insert_batch(records, failed)

NextInsert == InsertBatch

SpecInsert == InitInsert /\ [][NextInsert]_vars

-----------------------------------------------------------------------------
(* A seeding session: cmd_seed (the CLI) or run_generation (the interactive menu)
   against a backend whose calls return, or raise *)

\* the largest --count and --batch-size given
MaxCount == 3
MaxSeedBatch == 2

\* datetime.strptime(s, "%Y-%m-%d") of the strings it parses
DateStrings ==
    ("2024-01-01" :> "2024-01-01 00:00:00") @@ ("2024-1-1" :> "2024-01-01 00:00:00")
    @@ ("2024-12-31" :> "2024-12-31 00:00:00")

\* strptime raises ValueError
strptime_raises(s) == s \notin DOMAIN DateStrings

strptime(s) == DateStrings[s]

\* the names of list_schemas()
valid_types == {"contacts", "sales_orders", "manufacturing_orders", "products", "invoices"}

BACKEND_ALIASES ==
    ("pg" :> "postgres") @@ ("postgresql" :> "postgres") @@ ("es" :> "elasticsearch")
    @@ ("elastic" :> "elasticsearch") @@ ("duck" :> "duckdb")

\* name.lower()
Lower(name) ==
    CASE name = "Duck" -> "duck"
      [] name = "Postgres" -> "postgres"
      [] name = "ES" -> "es"
      [] name = "PG" -> "pg"
      [] name = "MySQL" -> "mysql"
      [] name = "DUCKDB" -> "duckdb"
      [] name = "Oracle" -> "oracle"
      [] OTHER -> name

\* BACKEND_ALIASES.get(name.lower(), name.lower())
resolved_name(name) ==
    IF Lower(name) \in DOMAIN BACKEND_ALIASES THEN BACKEND_ALIASES[Lower(name)]
    ELSE Lower(name)

\* get_backend raises ValueError
get_backend_raises(name) == resolved_name(name) \notin BACKENDS

\* get_backend(name): an instance of the class registered under the resolved name
get_backend(name) == NewBackend(resolved_name(name))

\* a line printed
Msg(msg, value) == [msg |-> msg, value |-> value]

\* the checks cmd_seed makes before it touches the backend, in their order: the
\* lines printed by the first that fails, <<>> when all pass
seed_refusal(args) ==
    IF Truthy(args.start) /\ strptime_raises(args.start)
    THEN <<Msg("Invalid start date format", args.start)>>
    ELSE IF Truthy(args.end) /\ strptime_raises(args.end)
    THEN <<Msg("Invalid end date format", args.end)>>
    ELSE IF args.type \notin valid_types
    THEN <<Msg("Invalid data type", args.type), Msg("Available types", "")>>
    ELSE IF get_backend_raises(args.db)
    THEN <<Msg("Unknown backend", args.db)>>
    ELSE <<>>

\* normalization never falls back to flat mode
flat_fallback_never(requested, b) == FALSE

\* normalize and not backend.supports_normalization
flat_fallback(requested, b) == requested /\ ~supports_normalization(b.name)

\* the values the arguments of cmd_seed take; the parser of the seed command lets
\* through any --start and --end and the registered names, cmd_seed is also called
\* with other names (tests/test_seed.py)
SeedDbs == {"postgres", "ES", "oracle"}
SeedTypes == {"contacts", "sales_orders", "manufacturing_orders", "bogus"}
StartArgs == {None, "", "2024-01-01", "not-a-date"}
EndArgs == {None, "2024-13-45"}

\* the invocations: every mode, count and batch size with the default time range,
\* and every time range with one record seeded flat
SeedArgs ==
    [db : SeedDbs, type : SeedTypes, count : 1..MaxCount, batch_size : 1..MaxSeedBatch,
     normalize : BOOLEAN, clear : BOOLEAN, start : {None}, end : {None}]
    \cup
    [db : SeedDbs, type : SeedTypes, count : {1}, batch_size : {1},
     normalize : {FALSE}, clear : {FALSE}, start : StartArgs, end : EndArgs]

\* the session starts with a fresh normalizer (when it has one), no generator yet
\* and no loop entered
SessionLocals ==
    /\ calls' = <<>>
    /\ all_batches' = <<>>
    /\ normalized_batches' = <<>>
    /\ batch_num' = 0
    /\ total_inserted' = 0
    /\ UNCHANGED <<normVars, genVars, store, ins, moreVars>>

\* cmd_seed(args) up to its try block: the locals are read from args, the checks
\* are made, and a refusal returns False
cmd_seed(args) ==
    /\ pc = "idle"
    /\ LET locals == [NoSession EXCEPT !.entry = "cmd_seed", !.args = args,
                                       !.db = args.db, !.data_type = args.type,
                                       !.count = args.count,
                                       !.batch_size = args.batch_size,
                                       !.normalize = args.normalize,
                                       !.clear = args.clear]
       IN IF seed_refusal(args) # <<>>
          THEN /\ session' = locals
               /\ output' = seed_refusal(args)
               /\ result' = "False"
               /\ pc' = "done"
               /\ UNCHANGED backend
          ELSE LET b == get_backend(args.db)
                   demoted == flat_fallback(args.normalize, b)
                   flat == ~args.normalize \/ demoted
               IN /\ backend' = b
                  /\ session' = [locals EXCEPT
                                   !.normalize = ~flat, !.normalizer = ~flat,
                                   !.start_date = IF Truthy(args.start)
                                                  THEN strptime(args.start)
                                                  ELSE "now - 365 days",
                                   !.end_date = IF Truthy(args.end) THEN strptime(args.end)
                                                ELSE "now"]
                  /\ output' = (IF demoted
                                THEN <<Msg("Normalization not supported. Using flat mode.",
                                           args.db)>>
                                ELSE <<>>)
                               \o <<Msg("Seeding", args.db)>>
                  /\ result' = None
                  /\ pc' = "connect"
    /\ SessionLocals

\* the backends and schemas the menu offers, and the configurations
\* configure_generation returns for them
MenuBackends == {"postgres", "elasticsearch"}
MenuSchemas == {"sales_orders"}
MenuConfigs(backend_name) ==
    [count : 1..MaxCount, batch_size : {MaxSeedBatch},
     normalize : IF supports_normalization(backend_name) THEN BOOLEAN ELSE {FALSE},
     clear : BOOLEAN, start_date : {"now - 365 days"}, end_date : {"now"}]

\* run_generation(backend_name, schema_name, config) up to its try block
run_generation(backend_name, schema_name, config) ==
    /\ pc = "idle"
    /\ backend' = get_backend(backend_name)
    /\ session' = [entry |-> "run_generation", args |-> config, db |-> backend_name,
                   data_type |-> schema_name, count |-> config.count,
                   batch_size |-> config.batch_size,
                   normalize |-> config.normalize, normalizer |-> config.normalize,
                   clear |-> config.clear,
                   start_date |-> config.start_date, end_date |-> config.end_date]
    /\ output' = <<Msg("Generating", schema_name)>>
    /\ result' = None
    /\ pc' = "connect"
    /\ SessionLocals

\* a call made on the backend; raised is None when the call returned
Call(op, table, normalized, data) ==
    [op |-> op, table |-> table, normalized |-> normalized, data |-> data,
     raised |-> None]

\* table_name = f"{schema.table_name}_normalized" if normalize else schema.table_name
session_table_name ==
    IF session.normalize THEN NormalizedName(session.data_type) ELSE session.data_type

\* except clauses that return False without printing anything
HandledSilently(exc) ==
    /\ output' = output
    /\ result' = "False"
    /\ pc' = "done"

\* the except clauses of the try block: what is printed, and False returned; the
\* backend is left as the raising call left it
Handled(exc) ==
    /\ output' = output \o (IF exc = "ImportError"
                            THEN <<Msg("Missing dependency", ""),
                                   Msg("Install required packages", "")>>
                            ELSE <<Msg("Error", "")>>)
    /\ result' = "False"
    /\ pc' = "done"

\* a backend call in the try block: it returns (every operation holds an open
\* connection when it returns), or raises into the except clauses
TryCall(call, exc, printed, next_pc) ==
    /\ calls' = Append(calls, [call EXCEPT !.raised = exc])
    /\ IF exc = None
       THEN /\ backend' = connected(backend)
            /\ output' = output \o printed
            /\ pc' = next_pc
            /\ UNCHANGED result
       ELSE /\ Handled(exc)
            /\ UNCHANGED backend

\* if normalize [and backend.supports_normalization]: create_normalized_tables()
creates_normalized_tables ==
    /\ session.normalize
    /\ session.entry = "run_generation" => supports_normalization(backend.name)

\* the entity tables are never created
after_clear_main_table_only == "create_table"

\* the statement after the clear block
after_clear == IF creates_normalized_tables THEN "create_normalized_tables" ELSE "create_table"

\* backend.connect()
Connect ==
    /\ pc = "connect"
    /\ \E exc \in {None, "ImportError", "Exception"} :
          TryCall(Call("connect", "", FALSE, <<>>), exc,
                  IF session.clear THEN <<Msg("Clearing existing data", session_table_name)>>
                  ELSE <<>>,
                  IF session.clear THEN "drop_table" ELSE after_clear)
    /\ UNCHANGED <<session, all_batches, normalized_batches, batch_num, total_inserted,
                   normVars, genVars, store, ins, moreVars>>

\* a clear block without its try: a drop_table that raises ends the session in the
\* except clauses
DropTableUnguarded ==
    /\ pc \in {"drop_table", "drop_customers", "drop_products"}
    /\ LET table_name == CASE pc = "drop_table" -> session_table_name
                           [] pc = "drop_customers" -> "customers"
                           [] pc = "drop_products" -> "products_normalized"
       IN \E exc \in {None, "Exception"} :
             TryCall(Call("drop_table", table_name, FALSE, <<>>), exc, <<>>,
                     CASE pc = "drop_table" ->
                              IF session.normalize THEN "drop_customers" ELSE after_clear
                       [] pc = "drop_customers" -> "drop_products"
                       [] pc = "drop_products" -> after_clear)
    /\ UNCHANGED <<session, all_batches, normalized_batches, batch_num, total_inserted,
                   normVars, genVars, store, ins, moreVars>>

\* the drop_table calls of the clear block; an exception ends the block and is
\* passed over
DropTable ==
    /\ pc \in {"drop_table", "drop_customers", "drop_products"}
    /\ LET table_name == CASE pc = "drop_table" -> session_table_name
                           [] pc = "drop_customers" -> "customers"
                           [] pc = "drop_products" -> "products_normalized"
       IN \E exc \in {None, "Exception"} :
             /\ calls' = Append(calls, [Call("drop_table", table_name, FALSE, <<>>)
                                           EXCEPT !.raised = exc])
             /\ pc' = IF exc # None THEN after_clear
                      ELSE CASE pc = "drop_table" ->
                                    IF session.normalize THEN "drop_customers" ELSE after_clear
                             [] pc = "drop_customers" -> "drop_products"
                             [] pc = "drop_products" -> after_clear
    /\ backend' = connected(backend)
    /\ UNCHANGED <<session, result, output, all_batches, normalized_batches, batch_num,
                   total_inserted, normVars, genVars, store, ins, moreVars>>

\* backend.create_normalized_tables()
CreateNormalizedTables ==
    /\ pc = "create_normalized_tables"
    /\ \E exc \in {None, "Exception"} :
          TryCall(Call("create_normalized_tables", "", FALSE, <<>>), exc, <<>>,
                  "create_table")
    /\ UNCHANGED <<session, all_batches, normalized_batches, batch_num, total_inserted,
                   normVars, genVars, store, ins, moreVars>>

\* backend.create_table(schema, normalized=normalize), then create_generator and
\* the choice of the mode; flat mode computes total_batches by a division by
\* batch_size
CreateTable ==
    /\ pc = "create_table"
    /\ \E exc \in {None, "Exception"} :
          LET flat == ~(session.normalize /\ session.normalizer)
              zero_division == exc = None /\ flat /\ session.batch_size = 0
          IN /\ calls' = Append(calls, [Call("create_table", session.data_type,
                                             session.normalize, <<>>)
                                           EXCEPT !.raised = exc])
             /\ IF exc = None /\ ~zero_division
                THEN /\ backend' = connected(backend)
                     /\ gen' = generate_batches(session.data_type, session.count,
                                                session.batch_size)
                     /\ yielded' = <<>>
                     /\ pc' = IF flat THEN "flat" ELSE "generate"
                     /\ UNCHANGED <<output, result>>
                ELSE /\ Handled("Exception")
                     /\ backend' = IF exc = None THEN connected(backend) ELSE backend
                     /\ UNCHANGED genVars
    /\ UNCHANGED <<session, all_batches, normalized_batches, batch_num, total_inserted,
                   normVars, store, ins, moreVars>>

RECURSIVE normalize_batch_unshared(_, _, _)
\* every record of the batch normalized by the instance as it was before the batch
normalize_batch_unshared(ns, batch, schema_name) ==
    IF batch = <<>> THEN [ns |-> ns, out |-> <<>>]
    ELSE LET r == normalize(ns, Head(batch), schema_name)
             rest == normalize_batch_unshared(ns, Tail(batch), schema_name)
         IN [ns |-> IF Tail(batch) = <<>> THEN r.ns ELSE rest.ns,
             out |-> <<r.out>> \o rest.out]

RECURSIVE normalize_batch(_, _, _)
\* [normalizer.normalize_record(r, data_type) for r in batch]
normalize_batch(ns, batch, schema_name) ==
    IF batch = <<>> THEN [ns |-> ns, out |-> <<>>]
    ELSE LET r == normalize(ns, Head(batch), schema_name)
             rest == normalize_batch(r.ns, Tail(batch), schema_name)
         IN [ns |-> rest.ns, out |-> <<r.out>> \o rest.out]

RECURSIVE normalize_batches(_, _, _)
\* for batch in all_batches: normalized_batches.append(normalized_batch)
normalize_batches(ns, batches, schema_name) ==
    IF batches = <<>> THEN [ns |-> ns, out |-> <<>>]
    ELSE LET b == normalize_batch(ns, Head(batches), schema_name)
             rest == normalize_batches(b.ns, Tail(batches), schema_name)
         IN [ns |-> rest.ns, out |-> <<b.out>> \o rest.out]

\* the log entries normalize_record leaves for the records of the batches
LogOf(batches, out, schema_name) ==
    LET entry(i, j) == [schema |-> schema_name, rec |-> batches[i][j], out |-> out[i][j]]
        RECURSIVE upto(_)
        upto(i) == IF i = 0 THEN <<>>
                   ELSE upto(i - 1) \o [j \in 1..Len(batches[i]) |-> entry(i, j)]
    IN upto(Len(batches))

\* the statement after the entities are inserted, or found to be none
after_entities(batches) == IF batches # <<>> THEN "insert_batch" ELSE "get_count"

\* the entities are never inserted
after_normalizing_skips_entities(ns, batches) == after_entities(batches)

\* if customers or products: backend.insert_normalized_entities(customers, products)
after_normalizing(ns, batches) ==
    IF get_customers_table(ns) # <<>> \/ get_products_table(ns) # <<>>
    THEN "insert_normalized_entities"
    ELSE after_entities(batches)

\* list(generator.generate_batches(count, batch_size)): one next() that returns a
\* batch
CollectBatch ==
    /\ pc = "generate"
    /\ ~gen_stops(gen)
    /\ gen' = gen_yielding(gen)
    /\ \E batch \in generate_batch(gen.schema, gen'.current_batch) :
          /\ yielded' = Append(yielded, batch)
          /\ all_batches' = Append(all_batches, batch)
    /\ UNCHANGED <<pc, session, result, calls, output, normalized_batches, batch_num,
                   total_inserted, normVars, beVars, moreVars>>

\* the next() that ends list(...), then the loop that normalizes every batch and
\* the reading of the entity tables
NormalizeAll ==
    /\ pc = "generate"
    /\ gen_stops(gen)
    /\ gen' = gen_stopped(gen)
    /\ LET r == normalize_batches(NormState, all_batches, session.data_type) IN
        /\ SetNormState(r.ns)
        /\ normLog' = normLog \o LogOf(all_batches, r.out, session.data_type)
        /\ normalized_batches' = r.out
        /\ pc' = after_normalizing(r.ns, r.out)
    /\ UNCHANGED <<session, result, calls, output, all_batches, batch_num, total_inserted,
                   yielded, beVars, moreVars>>

\* backend.insert_normalized_entities(customers, products)
InsertNormalizedEntities ==
    /\ pc = "insert_normalized_entities"
    /\ LET customers_table == get_customers_table(NormState)
           products_table == get_products_table(NormState)
       IN \E exc \in {None, "Exception"} :
             TryCall(Call("insert_normalized_entities", "", FALSE,
                          <<customers_table, products_table>>), exc,
                     (IF customers_table # <<>> THEN <<Msg("Created unique customers", "")>>
                      ELSE <<>>)
                     \o (IF products_table # <<>> THEN <<Msg("Created unique products", "")>>
                         ELSE <<>>),
                     after_entities(normalized_batches))
    /\ UNCHANGED <<session, all_batches, normalized_batches, batch_num, total_inserted,
                   normVars, genVars, store, ins, moreVars>>

\* for batch_num, batch in enumerate(normalized_batches, 1):
\*     inserted = backend.insert_batch(schema, batch, normalized=normalize)
InsertNormalizedBatch ==
    /\ pc = "insert_batch"
    /\ batch_num' = batch_num + 1
    /\ LET batch == normalized_batches[batch_num + 1] IN
        \E exc \in {None, "Exception"}, inserted \in 0..Len(batch) :
          /\ TryCall(Call("insert_batch", session.data_type, session.normalize, batch),
                     exc, <<>>,
                     IF batch_num + 1 < Len(normalized_batches) THEN "insert_batch"
                     ELSE "get_count")
          /\ total_inserted' = IF exc = None THEN total_inserted + inserted
                               ELSE total_inserted
          /\ exc # None => inserted = 0
    /\ UNCHANGED <<session, all_batches, normalized_batches, normVars, genVars,
                   store, ins, moreVars>>

\* a flat loop that may draw the next batch before the last one is inserted
FlatNextBatchAhead ==
    /\ pc = "flat"
    /\ IF gen_stops(gen)
       THEN /\ gen' = gen_stopped(gen)
            /\ pc' = "get_count"
            /\ UNCHANGED <<yielded, batch_num>>
       ELSE /\ gen' = gen_yielding(gen)
            /\ \E batch \in generate_batch(gen.schema, gen'.current_batch) :
                  yielded' = Append(yielded, batch)
            /\ batch_num' = batch_num + 1
            /\ pc' \in {"flat", "flat_insert"}
    /\ UNCHANGED <<session, result, calls, output, all_batches, normalized_batches,
                   total_inserted, normVars, beVars, moreVars>>

\* for batch in generator.generate_batches(count, batch_size): one next()
FlatNextBatch ==
    /\ pc = "flat"
    /\ IF gen_stops(gen)
       THEN /\ gen' = gen_stopped(gen)
            /\ pc' = "get_count"
            /\ UNCHANGED <<yielded, batch_num>>
       ELSE /\ gen' = gen_yielding(gen)
            /\ \E batch \in generate_batch(gen.schema, gen'.current_batch) :
                  yielded' = Append(yielded, batch)
            /\ batch_num' = batch_num + 1
            /\ pc' = "flat_insert"
    /\ UNCHANGED <<session, result, calls, output, all_batches, normalized_batches,
                   total_inserted, normVars, beVars, moreVars>>

\* a // b of Python: the quotient rounded towards minus infinity, b # 0
FloorDiv(a, b) == IF b > 0 THEN a \div b ELSE (0 - a) \div (0 - b)

\* total_batches = (count + batch_size - 1) // batch_size
total_batches(count, batch_size) == FloorDiv(count + batch_size - 1, batch_size)

\* inserted = backend.insert_batch(schema, batch, normalized=False), which returns
\* 0 at once for an empty batch; then progress = batch_num / total_batches, a
\* ZeroDivisionError when total_batches is 0
FlatInsertBatch ==
    /\ pc = "flat_insert"
    /\ LET batch == yielded[Len(yielded)]
           call == Call("insert_batch", session.data_type, FALSE, batch) IN
        \E exc \in {None, "Exception"}, inserted \in 0..Len(batch) :
          /\ exc # None => inserted = 0 /\ batch # <<>>
          /\ IF exc = None /\ total_batches(session.count, session.batch_size) = 0
             THEN /\ calls' = Append(calls, call)
                  /\ backend' = connected(backend)
                  /\ Handled("Exception")
             ELSE TryCall(call, exc, <<>>, "flat")
          /\ total_inserted' = IF exc = None THEN total_inserted + inserted
                               ELSE total_inserted
    /\ UNCHANGED <<session, all_batches, normalized_batches, batch_num, normVars, genVars,
                   store, ins, moreVars>>

\* final_count = backend.get_count(table_name), then the report and the
\* connection info
GetCount ==
    /\ pc = "get_count"
    /\ \E exc \in {None, "Exception"} :
          TryCall(Call("get_count", session_table_name, FALSE, <<>>), exc,
                  <<Msg("Inserted records into", session_table_name),
                    Msg("Total records in table", ""), Msg("Connection info", "")>>,
                  "disconnect")
    /\ UNCHANGED <<session, all_batches, normalized_batches, batch_num, total_inserted,
                   normVars, genVars, store, ins, moreVars>>

\* backend.disconnect(); return True
Disconnect ==
    /\ pc = "disconnect"
    /\ \E exc \in {None, "Exception"} :
          /\ calls' = Append(calls, [Call("disconnect", "", FALSE, <<>>)
                                        EXCEPT !.raised = exc])
          /\ IF exc = None
             THEN /\ backend' = [backend EXCEPT !.conn = "None"]
                  /\ result' = "True"
                  /\ pc' = "done"
                  /\ UNCHANGED output
             ELSE /\ Handled(exc)
                  /\ UNCHANGED backend
    /\ UNCHANGED <<session, all_batches, normalized_batches, batch_num, total_inserted,
                   normVars, genVars, store, ins, moreVars>>

InitSeed ==
    /\ InitNorm
    /\ gen = NoGenerator
    /\ yielded = <<>>
    /\ InitNoBackend
    /\ InitNoSession
    /\ InitNoRecord
    /\ InitNoReset
    /\ InitNoProbe

SeedCommand == \E args \in SeedArgs : cmd_seed(args)

SeedMenu ==
    \E backend_name \in MenuBackends, schema_name \in MenuSchemas :
        \E config \in MenuConfigs(backend_name) :
            run_generation(backend_name, schema_name, config)

NextSeed ==
    \/ SeedCommand
    \/ SeedMenu
    \/ Connect
    \/ DropTable
    \/ CreateNormalizedTables
    \/ CreateTable
    \/ CollectBatch
    \/ NormalizeAll
    \/ InsertNormalizedEntities
    \/ InsertNormalizedBatch
    \/ FlatNextBatch
    \/ FlatInsertBatch
    \/ GetCount
    \/ Disconnect

SpecSeed == InitSeed /\ [][NextSeed]_vars

-----------------------------------------------------------------------------
(* DataGenerator.generate_record, field by field, for every registered schema and
   every window of dates *)

\* the last day a window of dates starts or ends on (days are counted from day 0)
MaxDay == 2

\* fake.random_int(min=0, max=30): the largest offset of a secondary timestamp
MaxOffsetDays == 30

\* FieldDef(name, faker_func, sql_type, es_type, nullable)
FieldDef(name, sql_type, nullable) ==
    [name |-> name, sql_type |-> sql_type, nullable |-> nullable]

\* a field that is not nullable
Field(name, sql_type) == FieldDef(name, sql_type, FALSE)

CONTACTS ==
    [name |-> "contacts", time_field |-> "created_at",
     fields |-> <<Field("id", "SERIAL PRIMARY KEY"), Field("first_name", "VARCHAR(100)"),
                  Field("last_name", "VARCHAR(100)"), Field("email", "VARCHAR(255)"),
                  Field("phone", "VARCHAR(50)"), Field("company", "VARCHAR(255)"),
                  Field("job_title", "VARCHAR(255)"), Field("address", "VARCHAR(255)"),
                  Field("city", "VARCHAR(100)"), Field("state", "VARCHAR(50)"),
                  Field("postal_code", "VARCHAR(20)"), Field("country", "VARCHAR(100)"),
                  Field("created_at", "TIMESTAMP"), Field("updated_at", "TIMESTAMP")>>]

SALES_ORDERS ==
    [name |-> "sales_orders", time_field |-> "order_date",
     fields |-> <<Field("id", "SERIAL PRIMARY KEY"),
                  Field("order_number", "VARCHAR(50) UNIQUE"),
                  Field("customer_name", "VARCHAR(255)"),
                  Field("customer_email", "VARCHAR(255)"),
                  Field("customer_phone", "VARCHAR(50)"), Field("order_date", "TIMESTAMP"),
                  FieldDef("ship_date", "TIMESTAMP", TRUE), Field("status", "VARCHAR(50)"),
                  Field("subtotal", "DECIMAL(12,2)"), Field("tax", "DECIMAL(12,2)"),
                  Field("shipping", "DECIMAL(12,2)"), Field("total", "DECIMAL(12,2)"),
                  Field("shipping_address", "VARCHAR(255)"),
                  Field("shipping_city", "VARCHAR(100)"),
                  Field("shipping_state", "VARCHAR(50)"),
                  Field("shipping_postal_code", "VARCHAR(20)"),
                  Field("payment_method", "VARCHAR(50)"), FieldDef("notes", "TEXT", TRUE),
                  Field("created_at", "TIMESTAMP")>>]

MANUFACTURING_ORDERS ==
    [name |-> "manufacturing_orders", time_field |-> "scheduled_start",
     fields |-> <<Field("id", "SERIAL PRIMARY KEY"),
                  Field("work_order_number", "VARCHAR(50) UNIQUE"),
                  Field("product_name", "VARCHAR(255)"), Field("product_sku", "VARCHAR(50)"),
                  Field("quantity", "INTEGER"), Field("unit_of_measure", "VARCHAR(50)"),
                  Field("scheduled_start", "TIMESTAMP"), Field("scheduled_end", "TIMESTAMP"),
                  FieldDef("actual_start", "TIMESTAMP", TRUE),
                  FieldDef("actual_end", "TIMESTAMP", TRUE), Field("status", "VARCHAR(50)"),
                  Field("priority", "VARCHAR(20)"), Field("assigned_to", "VARCHAR(255)"),
                  Field("work_center", "VARCHAR(50)"), FieldDef("notes", "TEXT", TRUE),
                  Field("created_at", "TIMESTAMP")>>]

PRODUCTS ==
    [name |-> "products", time_field |-> "created_at",
     fields |-> <<Field("id", "SERIAL PRIMARY KEY"), Field("sku", "VARCHAR(50) UNIQUE"),
                  Field("name", "VARCHAR(255)"), Field("description", "TEXT"),
                  Field("category", "VARCHAR(100)"), Field("unit_price", "DECIMAL(12,2)"),
                  Field("cost_price", "DECIMAL(12,2)"), Field("quantity_on_hand", "INTEGER"),
                  Field("reorder_level", "INTEGER"), Field("supplier_name", "VARCHAR(255)"),
                  Field("supplier_contact", "VARCHAR(255)"), Field("is_active", "BOOLEAN"),
                  Field("created_at", "TIMESTAMP"), Field("updated_at", "TIMESTAMP")>>]

INVOICES ==
    [name |-> "invoices", time_field |-> "invoice_date",
     fields |-> <<Field("id", "SERIAL PRIMARY KEY"),
                  Field("invoice_number", "VARCHAR(50) UNIQUE"),
                  Field("customer_name", "VARCHAR(255)"),
                  Field("customer_email", "VARCHAR(255)"),
                  Field("invoice_date", "TIMESTAMP"), Field("due_date", "TIMESTAMP"),
                  Field("status", "VARCHAR(50)"), Field("line_items_json", "TEXT"),
                  Field("subtotal", "DECIMAL(12,2)"), Field("tax_rate", "DECIMAL(5,4)"),
                  Field("tax_amount", "DECIMAL(12,2)"), Field("total", "DECIMAL(12,2)"),
                  FieldDef("payment_date", "TIMESTAMP", TRUE),
                  FieldDef("payment_method", "VARCHAR(50)", TRUE),
                  FieldDef("notes", "TEXT", TRUE), Field("created_at", "TIMESTAMP")>>]

\* the registry of schemas
SCHEMAS ==
    ("contacts" :> CONTACTS) @@ ("sales_orders" :> SALES_ORDERS)
    @@ ("manufacturing_orders" :> MANUFACTURING_ORDERS) @@ ("products" :> PRODUCTS)
    @@ ("invoices" :> INVOICES)

\* a Schema that is not registered: a timestamp field stands before the time
\* field in its field order
AUDIT_EVENTS ==
    [name |-> "audit_events", time_field |-> "occurred_at",
     fields |-> <<Field("id", "SERIAL PRIMARY KEY"), Field("received_at", "TIMESTAMP"),
                  Field("actor", "VARCHAR(100)"), Field("occurred_at", "TIMESTAMP"),
                  FieldDef("reviewed_at", "TIMESTAMP", TRUE)>>]

\* the schemas a DataGenerator is constructed with
GeneratorSchemas == SCHEMAS @@ ("audit_events" :> AUDIT_EVENTS)

\* the values of a record's fields: a datetime (counted in days), a value drawn
\* by the field's faker_func, or None
Datetime(d) == [type |-> "datetime", days |-> d]
Faked == [type |-> "faker", days |-> 0]
NoneValue == [type |-> "None", days |-> 0]

\* "SERIAL" in field.sql_type
HasSerial(sql_type) == sql_type \in {"SERIAL", "SERIAL PRIMARY KEY", "BIGSERIAL PRIMARY KEY"}

\* no field is skipped
skips_field_never(field) == FALSE

\* if field.name == "id" and "SERIAL" in field.sql_type: continue
skips_field(field) == field.name = "id" /\ HasSerial(field.sql_type)

\* _generate_time_in_range(): fake.date_time_between(start_date, end_date)
generate_time_in_range(g) == {Datetime(d) : d \in g.start_date..g.end_date}

\* offsets up to twice the largest
offset_days_doubled == {0, 1, MaxOffsetDays, 2 * MaxOffsetDays}

\* offset_days = fake.random_int(min=0, max=30): the smallest, the largest and one
\* between
offset_days == {0, 1, MaxOffsetDays}

\* the values the loop body can give the field before the nullable roll
field_values(g, rec, field) ==
    LET time_field == GeneratorSchemas[g.schema].time_field IN
    IF field.name = time_field THEN generate_time_in_range(g)
    ELSE IF field.sql_type = "TIMESTAMP"
    THEN IF time_field \in DOMAIN rec
         THEN {Datetime(rec[time_field].days + o) : o \in offset_days}
         ELSE generate_time_in_range(g)
    ELSE {Faked}

\* DataGenerator(schema, start_date, end_date) for start_date <= end_date
InitRecord ==
    /\ InitNorm
    /\ gen = NoGenerator
    /\ yielded = <<>>
    /\ InitNoBackend
    /\ InitNoSession
    /\ InitNoReset
    /\ InitNoProbe
    /\ \E name \in DOMAIN GeneratorSchemas, s \in 0..MaxDay, e \in 0..MaxDay :
          /\ s <= e
          /\ generator = [schema |-> name, start_date |-> s, end_date |-> e]
    /\ built = <<>>
    /\ field_index = 0

\* generate_record() is called: record = {}
generate_record ==
    /\ field_index = 0
    /\ built' = <<>>
    /\ field_index' = 1
    /\ UNCHANGED <<generator, discarded, probeVars, normVars, genVars, beVars, sessVars>>

\* one pass of for field in self.schema.fields
generate_field ==
    /\ field_index >= 1
    /\ field_index <= Len(GeneratorSchemas[generator.schema].fields)
    /\ LET field == GeneratorSchemas[generator.schema].fields[field_index] IN
        IF skips_field(field) THEN built' = built
        ELSE \E value \in field_values(generator, built, field) :
                \E nulled \in (IF field.nullable THEN BOOLEAN ELSE {FALSE}) :
                    built' = Put(built, field.name, IF nulled THEN NoneValue ELSE value)
    /\ field_index' = field_index + 1
    /\ UNCHANGED <<generator, discarded, probeVars, normVars, genVars, beVars, sessVars>>

NextRecord == generate_record \/ generate_field

SpecRecord == InitRecord /\ [][NextRecord]_vars

-----------------------------------------------------------------------------
(* One normalizer instance reused: normalize_record calls, reset(), and calls
   again *)

\* the (record, schema_name) arguments tried before and after a reset
ResetInputs ==
    {<<rc1, "sales_orders">>, <<rc3, "invoices">>, <<rc4, "sales_orders">>,
     <<rp1, "manufacturing_orders">>, <<rp3, "manufacturing_orders">>}

NormalizeBeforeOrAfterReset == \E arg \in ResetInputs : normalize_record(arg[1], arg[2])

\* reset() on the instance as it is
reset_instance ==
    /\ SetNormState(reset_state(NormState))
    /\ normLog' = <<>>
    /\ discarded' = [customers |-> Len(customers), products |-> Len(products)]
    /\ UNCHANGED <<genVars, beVars, sessVars, recVars, probeVars>>

NextReset == NormalizeBeforeOrAfterReset \/ reset_instance

SpecReset == InitNormOnly /\ [][NextReset]_vars

-----------------------------------------------------------------------------
(* The ids one DuckDBBackend instance assigns: insert_batch calls on the
   sales_orders table and its normalized twin, between drops, re-creations and
   disconnects *)

\* the insert_batch calls made on the instance
MaxIdCalls == 3

\* the id of a row the database file already holds
StoredId == 3
\* an id a record brings with it
OwnId == 5

\* what each table of the database file holds when the instance is constructed
StoredRows ==
    {<<>>, <<("id" :> StoredId) @@ ("order_number" :> "ORD-9")
             @@ ("customer_email" :> "a@x") @@ ("total" :> "10")>>}

IdRecord(o) == ("order_number" :> o) @@ ("customer_email" :> "a@x") @@ ("total" :> "10")

\* batches of records without an id, with "id": None, and with an id of their
\* own; two records of one order number make the second row a conflict
IdBatches ==
    {<<>>,
     <<IdRecord("ORD-1")>>,
     <<IdRecord("ORD-1"), IdRecord("ORD-1")>>,
     <<IdRecord("ORD-1"), IdRecord("ORD-2")>>,
     <<Put(IdRecord("ORD-2"), "id", NoId)>>,
     <<Put(IdRecord("ORD-2"), "id", OwnId)>>,
     <<Put(IdRecord("ORD-2"), "id", OwnId), IdRecord("ORD-1")>>}

InitIds ==
    /\ InitNorm
    /\ gen = NoGenerator
    /\ yielded = <<>>
    /\ backend = NewBackend("duckdb")
    /\ \E flat \in StoredRows : \E twin \in StoredRows :
          store = [create_table(backend,
                                create_table(backend, <<>>, "sales_orders", FALSE),
                                "sales_orders", TRUE)
                     EXCEPT !["sales_orders"].rows = flat,
                            !["sales_orders_normalized"].rows = twin]
    /\ ins = NoInsert
    /\ InitNoSession
    /\ InitNoRecord
    /\ InitNoReset
    /\ InitNoProbe

\* backend.insert_batch(schema, records, normalized) on the DuckDB instance; on a
\* dropped table the statement raises once the connection is open
duckdb_insert(records, normalized) ==
    /\ Len(id_log) < MaxIdCalls
    /\ IF records # <<>> /\ TableName("sales_orders", normalized) \notin DOMAIN store
       THEN /\ backend' = connected(backend)
            /\ UNCHANGED <<store, id_log>>
       ELSE LET r == duckdb_insert_batch(backend, store, "sales_orders", records,
                                         normalized) IN
            /\ backend' = r.backend
            /\ store' = r.store
            /\ id_log' = Append(id_log,
                                [table |-> TableName("sales_orders", normalized),
                                 max_read |-> r.max_read, assigned |-> r.assigned])
    /\ UNCHANGED <<ins, health, normVars, genVars, sessVars, recVars, discarded>>

DuckInsertBatch ==
    \E records \in IdBatches : \E normalized \in BOOLEAN :
        duckdb_insert(records, normalized)

\* backend.drop_table(table_name): DROP TABLE IF EXISTS
DuckDropTable ==
    /\ \E t \in DOMAIN store :
          store' = [x \in (DOMAIN store) \ {t} |-> store[x]]
    /\ backend' = connected(backend)
    /\ UNCHANGED <<ins, probeVars, normVars, genVars, sessVars, recVars, discarded>>

\* backend.create_table(schema, normalized): CREATE TABLE IF NOT EXISTS
DuckCreateTable ==
    /\ \E normalized \in BOOLEAN :
          /\ TableName("sales_orders", normalized) \notin DOMAIN store
          /\ store' = create_table(backend, store, "sales_orders", normalized)
    /\ backend' = connected(backend)
    /\ UNCHANGED <<ins, probeVars, normVars, genVars, sessVars, recVars, discarded>>

\* backend.disconnect(): the connection is closed, the counters stay
DuckDisconnect ==
    /\ backend.conn # "None"
    /\ backend' = [backend EXCEPT !.conn = "None"]
    /\ UNCHANGED <<store, ins, probeVars, normVars, genVars, sessVars, recVars, discarded>>

NextIds == DuckInsertBatch \/ DuckDropTable \/ DuckCreateTable \/ DuckDisconnect

SpecIds == InitIds /\ [][NextIds]_vars

-----------------------------------------------------------------------------
(* is_healthy() of a backend instance, between connect() and disconnect() calls
   that return, or raise *)

\* the is_healthy calls made on one backend instance
MaxProbes == 3

\* what the drivers raise: an import that fails, an engine that refuses or drops
\* the connection; all are subclasses of Exception
DriverErrors == {"ImportError", "OperationalError", "ConnectionError"}

\* a handler that catches nothing the drivers raise but a failed import
caught_import_error_only(exc) == exc = "ImportError"

\* except Exception
caught(exc) == exc \in DriverErrors

\* the record of an is_healthy call: the steps it attempted, the step that raised
\* and what, the cluster status read, and what the caller got
Probe(attempted, raised_in, exc, status, returned) ==
    [calls |-> health.calls + 1, attempted |-> attempted, raised_in |-> raised_in,
     exc |-> exc, status |-> status,
     returned |-> IF exc = None \/ caught(exc) THEN returned ELSE None,
     propagated |-> IF exc = None \/ caught(exc) THEN None ELSE exc]

\* DatabaseBackend.is_healthy: connect(), disconnect(), True; False from the
\* handler. A disconnect() that raises in close() leaves the handle set.
is_healthy(b, connect_exc, disconnect_exc) ==
    IF connect_exc # None
    THEN [backend |-> b,
          probe |-> Probe(<<"connect">>, "connect", connect_exc, None, "False")]
    ELSE IF disconnect_exc # None
    THEN [backend |-> connected(b),
          probe |-> Probe(<<"connect", "disconnect">>, "disconnect", disconnect_exc,
                          None, "False")]
    ELSE [backend |-> [b EXCEPT !.conn = "None"],
          probe |-> Probe(<<"connect", "disconnect">>, None, None, None, "True")]

\* health.get("status") of client.cluster.health()
ClusterStatus == {"green", "yellow", "red"}

\* ElasticsearchBackend.is_healthy: connect(), client.cluster.health(), and the
\* status compared; the client is kept
es_is_healthy(b, connect_exc, health_exc, status) ==
    IF connect_exc # None
    THEN [backend |-> b,
          probe |-> Probe(<<"connect">>, "connect", connect_exc, None, "False")]
    ELSE IF health_exc # None
    THEN [backend |-> connected(b),
          probe |-> Probe(<<"connect", "cluster.health">>, "cluster.health", health_exc,
                          None, "False")]
    ELSE [backend |-> connected(b),
          probe |-> Probe(<<"connect", "cluster.health">>, None, None, status,
                          IF status \in {"green", "yellow"} THEN "True" ELSE "False")]

InitHealth ==
    /\ InitNorm
    /\ gen = NoGenerator
    /\ yielded = <<>>
    /\ \E name \in BACKENDS : backend = NewBackend(name)
    /\ store = <<>>
    /\ ins = NoInsert
    /\ InitNoSession
    /\ InitNoRecord
    /\ InitNoReset
    /\ InitNoProbe

\* backend.is_healthy() of the classes that inherit it; connect() on an instance
\* that holds a connection opens none and cannot fail
DefaultIsHealthy ==
    /\ backend.name # "elasticsearch"
    /\ health.calls < MaxProbes
    /\ \E connect_exc \in {None} \cup DriverErrors :
       \E disconnect_exc \in {None} \cup DriverErrors :
          /\ backend.conn = "open" => connect_exc = None
          /\ connect_exc # None => disconnect_exc = None
          /\ LET r == is_healthy(backend, connect_exc, disconnect_exc) IN
                /\ backend' = r.backend
                /\ health' = r.probe
    /\ UNCHANGED <<store, ins, id_log, normVars, genVars, sessVars, recVars, discarded>>

\* backend.is_healthy() of the Elasticsearch backend
EsIsHealthy ==
    /\ backend.name = "elasticsearch"
    /\ health.calls < MaxProbes
    /\ \E connect_exc \in {None} \cup DriverErrors :
       \E health_exc \in {None} \cup DriverErrors :
       \E status \in ClusterStatus :
          /\ backend.conn = "open" => connect_exc = None
          /\ connect_exc # None => health_exc = None
          /\ LET r == es_is_healthy(backend, connect_exc, health_exc, status) IN
                /\ backend' = r.backend
                /\ health' = r.probe
    /\ UNCHANGED <<store, ins, id_log, normVars, genVars, sessVars, recVars, discarded>>

\* backend.connect() called by another operation, and returning
ProbeConnect ==
    /\ backend.conn = "None"
    /\ backend' = connected(backend)
    /\ UNCHANGED <<store, ins, probeVars, normVars, genVars, sessVars, recVars, discarded>>

\* backend.disconnect() called by the session, and returning
ProbeDisconnect ==
    /\ backend.conn = "open"
    /\ backend' = [backend EXCEPT !.conn = "None"]
    /\ UNCHANGED <<store, ins, probeVars, normVars, genVars, sessVars, recVars, discarded>>

NextHealth == DefaultIsHealthy \/ EsIsHealthy \/ ProbeConnect \/ ProbeDisconnect

SpecHealth == InitHealth /\ [][NextHealth]_vars

-----------------------------------------------------------------------------
(* Seeding sessions of cmd_seed run one after another, without --clear, against
   one database of a relational engine: every call is answered by the engine as
   its tables stand, and the tables stay between the sessions *)

\* the largest --count and --batch-size of these sessions
MaxRunCount == 2
MaxRunBatch == 2

RunBackends == {"postgres", "mysql", "duckdb"}
RunTypes == {"sales_orders", "manufacturing_orders"}

\* the records generate_record returns; the free text of notes tells the records
\* apart, here by naming the customer or the product the record was drawn with
RunRecords(schema_name) ==
    IF schema_name = "sales_orders"
    THEN {("customer_name" :> "Ann") @@ ("customer_email" :> e)
          @@ ("customer_phone" :> "555-1") @@ ("total" :> "10") @@ ("notes" :> e) :
            e \in Emails}
    ELSE {("product_name" :> "Widget") @@ ("product_sku" :> k)
          @@ ("quantity" :> "5") @@ ("notes" :> k) : k \in Skus}

RunArgs ==
    [type : RunTypes, count : 1..MaxRunCount, batch_size : 1..MaxRunBatch,
     normalize : BOOLEAN]

\* create_normalized_tables: CREATE TABLE IF NOT EXISTS customers (email UNIQUE)
\* and products_normalized (sku UNIQUE)
create_normalized_tables(st) ==
    LET s1 == IF "customers" \in DOMAIN st THEN st
              ELSE ("customers" :> [unique |-> {"email"}, rows |-> <<>>]) @@ st
    IN IF "products_normalized" \in DOMAIN s1 THEN s1
       ELSE ("products_normalized" :> [unique |-> {"sku"}, rows |-> <<>>]) @@ s1

RECURSIVE pg_insert_entities(_, _, _)
\* PostgresBackend.insert_normalized_entities, one table: INSERT ... ON CONFLICT
\* (key) DO NOTHING row by row; a row of a new key whose id is taken violates the
\* primary key, which the conflict clause does not cover
pg_insert_entities(table, rows, key) ==
    IF rows = <<>> THEN [table |-> table, raised |-> None]
    ELSE LET r == Head(rows)
             same_key == \E i \in 1..Len(table.rows) : table.rows[i][key] = r[key]
             same_id == \E i \in 1..Len(table.rows) : table.rows[i]["id"] = r["id"]
         IN IF same_key THEN pg_insert_entities(table, Tail(rows), key)
            ELSE IF same_id THEN [table |-> table, raised |-> "UniqueViolation"]
            ELSE pg_insert_entities([table EXCEPT !.rows = Append(@, r)], Tail(rows), key)

\* an entity list as the rows offered to the engine
EntityRows(entities, columns) ==
    [i \in 1..Len(entities) |-> [c \in columns |-> entities[i][c]]]

\* insert_normalized_entities(customers, products): PostgreSQL as above, with
\* nothing committed when a statement raises; MySQL (INSERT IGNORE) and DuckDB
\* (INSERT OR IGNORE) pass over a row that conflicts on the key or on the id
insert_normalized_entities(b, st, customers_table, products_table) ==
    LET crows == EntityRows(customers_table, {"id", "name", "email", "phone"})
        prows == EntityRows(products_table, {"id", "sku", "name"})
    IN IF b.name = "postgres"
       THEN LET c == pg_insert_entities(st["customers"], crows, "email")
                q == pg_insert_entities(st["products_normalized"], prows, "sku")
            IN IF c.raised # None \/ q.raised # None
               THEN [store |-> st, raised |-> "UniqueViolation"]
               ELSE [store |-> [st EXCEPT !["customers"] = c.table,
                                          !["products_normalized"] = q.table],
                     raised |-> None]
       ELSE [store |-> [st EXCEPT
                          !["customers"] = InsertIgnore(@, crows).table,
                          !["products_normalized"] = InsertIgnore(@, prows).table],
             raised |-> None]

\* the foreign key column of a normalized table and the table it references
fk_column(schema_name) ==
    IF schema_name = "manufacturing_orders" THEN "product_id" ELSE "customer_id"
fk_table(schema_name) ==
    IF schema_name = "manufacturing_orders" THEN "products_normalized" ELSE "customers"

\* REFERENCES customers(id) / products_normalized(id): the record names an id that
\* no row of the referenced table has
dangling(st, schema_name, record) ==
    /\ fk_column(schema_name) \in DOMAIN record
    /\ ~\E i \in 1..Len(st[fk_table(schema_name)].rows) :
          st[fk_table(schema_name)].rows[i]["id"] = record[fk_column(schema_name)]

\* insert_batch against the engine: on a normalized table PostgreSQL raises on a
\* foreign key violation and MySQL's INSERT IGNORE passes over the row; DuckDB's
\* tables declare no foreign key
engine_insert_batch(b, st, schema_name, records, normalized) ==
    LET broken == {i \in 1..Len(records) :
                      normalized /\ dangling(st, schema_name, records[i])}
        kept == SelectSeq(records, LAMBDA r : ~(normalized /\ dangling(st, schema_name, r)))
        done == CASE b.name = "duckdb" ->
                        duckdb_insert_batch(b, st, schema_name, records, normalized)
                  [] b.name = "mysql" /\ kept = <<>> ->
                        [backend |-> connected(b), store |-> st, returned |-> 0]
                  [] b.name = "mysql" ->
                        sql_insert_batch(b, st, schema_name, kept, normalized)
                  [] OTHER -> sql_insert_batch(b, st, schema_name, records, normalized)
    IN IF b.name = "postgres" /\ broken # {}
       THEN [backend |-> connected(b), store |-> st, returned |-> 0,
             raised |-> "ForeignKeyViolation"]
       ELSE [backend |-> done.backend, store |-> done.store, returned |-> done.returned,
             raised |-> None]

\* get_count(table_name): SELECT COUNT(*)
get_count(st, table_name) == Len(st[table_name].rows)

\* total_inserted that keeps the last batch only
total_last_only(total, inserted) == inserted

\* total_inserted += inserted
running_total(total, inserted) == total + inserted

\* a call made on the backend, with what it returned (0 of a call that returns
\* nothing) and the rows its table held when it was made
RunCall(op, table, normalized, data, raised, returned, rows) ==
    [op |-> op, table |-> table, normalized |-> normalized, data |-> data,
     raised |-> raised, returned |-> returned, rows |-> rows]

RECURSIVE drain(_, _)
\* list(generator.generate_batches(count, batch_size)) when generate_record
\* returns the records of recs one after another
drain(g, recs) ==
    IF gen_stops(g) THEN <<>>
    ELSE LET g1 == gen_yielding(g)
         IN <<SubSeq(recs, 1, g1.current_batch)>>
            \o drain(g1, SubSeq(recs, g1.current_batch + 1, Len(recs)))

RECURSIVE exhausted(_)
\* the generator after the next() that ended list(...)
exhausted(g) == IF gen_stops(g) THEN gen_stopped(g) ELSE exhausted(gen_yielding(g))

InitRuns ==
    /\ InitNorm
    /\ gen = NoGenerator
    /\ yielded = <<>>
    /\ \E name \in RunBackends : backend = NewBackend(name)
    /\ store = <<>>
    /\ ins = NoInsert
    /\ InitNoSession
    /\ InitNoRecord
    /\ InitNoReset
    /\ InitNoProbe

\* cmd_seed(args) up to its try block, as the first session on the database or as
\* the one run after it: a new backend instance, a new normalizer
StartRun(args) ==
    /\ \/ pc = "idle"
       \/ pc = "done" /\ session.run = "first"
    /\ session' = ("run" :> IF pc = "idle" THEN "first" ELSE "second")
                  @@ [NoSession EXCEPT !.entry = "cmd_seed", !.db = backend.name,
                                       !.data_type = args.type, !.count = args.count,
                                       !.batch_size = args.batch_size,
                                       !.normalize = args.normalize,
                                       !.normalizer = args.normalize,
                                       !.start_date = "now - 365 days",
                                       !.end_date = "now"]
    /\ backend' = get_backend(backend.name)
    /\ SetNormState(FreshNormalizer)
    /\ normLog' = <<>>
    /\ gen' = NoGenerator
    /\ yielded' = <<>>
    /\ calls' = <<>>
    /\ output' = <<Msg("Seeding", backend.name)>>
    /\ result' = None
    /\ all_batches' = <<>>
    /\ normalized_batches' = <<>>
    /\ batch_num' = 0
    /\ total_inserted' = 0
    /\ pc' = "connect"
    /\ UNCHANGED <<store, ins, moreVars>>

\* connect(), create_normalized_tables() in normalized mode, create_table() and
\* create_generator()
RunSetup ==
    /\ pc = "connect"
    /\ LET s1 == IF session.normalize THEN create_normalized_tables(store) ELSE store
           s2 == create_table(backend, s1, session.data_type, session.normalize)
       IN /\ store' = s2
          /\ calls' = calls
                \o <<RunCall("connect", "", FALSE, <<>>, None, 0, 0)>>
                \o (IF session.normalize
                    THEN <<RunCall("create_normalized_tables", "", FALSE, <<>>, None, 0, 0)>>
                    ELSE <<>>)
                \o <<RunCall("create_table", session_table_name, session.normalize, <<>>,
                             None, 0, get_count(s2, session_table_name))>>
    /\ backend' = connected(backend)
    /\ gen' = generate_batches(session.data_type, session.count, session.batch_size)
    /\ pc' = IF session.normalize /\ session.normalizer THEN "generate" ELSE "flat"
    /\ UNCHANGED <<session, result, output, all_batches, normalized_batches, batch_num,
                   total_inserted, yielded, normVars, ins, moreVars>>

\* what a returning or raising insert_batch leaves of the session
AfterInsert(call, r, next_pc) ==
    /\ calls' = Append(calls, call)
    /\ backend' = r.backend
    /\ IF r.raised = None
       THEN /\ store' = r.store
            /\ total_inserted' = running_total(total_inserted, r.returned)
            /\ pc' = next_pc
            /\ UNCHANGED <<output, result>>
       ELSE /\ Handled(r.raised)
            /\ UNCHANGED <<store, total_inserted>>

\* one turn of the flat loop: next() yields a batch, insert_batch(schema, batch)
RunFlatBatch ==
    /\ pc = "flat"
    /\ ~gen_stops(gen)
    /\ gen' = gen_yielding(gen)
    /\ batch_num' = batch_num + 1
    /\ \E batch \in [1..gen'.current_batch -> RunRecords(session.data_type)] :
          /\ yielded' = Append(yielded, batch)
          /\ LET r == engine_insert_batch(backend, store, session.data_type, batch, FALSE)
             IN AfterInsert(RunCall("insert_batch", session_table_name, FALSE, batch,
                                    r.raised, r.returned,
                                    get_count(store, session_table_name)),
                            r, "flat")
    /\ UNCHANGED <<session, all_batches, normalized_batches, normVars, ins, moreVars>>

\* if customers or products: backend.insert_normalized_entities(customers,
\* products), r being what the engine makes of it
EntitiesInserted(out, customers_table, products_table, r) ==
    IF customers_table = <<>> /\ products_table = <<>>
    THEN /\ pc' = after_entities(out)
         /\ UNCHANGED <<calls, store, output, result>>
    ELSE /\ calls' = Append(calls,
                            RunCall("insert_normalized_entities", "", FALSE,
                                    <<customers_table, products_table>>, r.raised, 0, 0))
         /\ IF r.raised = None
            THEN /\ store' = r.store
                 /\ pc' = after_entities(out)
                 /\ UNCHANGED <<output, result>>
            ELSE /\ Handled(r.raised)
                 /\ UNCHANGED store

\* the loop that normalizes every batch, n being the normalizer after it and the
\* batches it returned, and the reading of the entity tables
BatchesNormalized(batches, n, customers_table, products_table) ==
    /\ yielded' = batches
    /\ all_batches' = batches
    /\ SetNormState(n.ns)
    /\ normLog' = normLog \o LogOf(batches, n.out, session.data_type)
    /\ normalized_batches' = n.out
    /\ EntitiesInserted(n.out, customers_table, products_table,
                        insert_normalized_entities(backend, store, customers_table,
                                                   products_table))

BatchesCollected(batches, n) ==
    BatchesNormalized(batches, n, get_customers_table(n.ns), get_products_table(n.ns))

\* list(generator.generate_batches(...)), the normalizing of every batch, and
\* insert_normalized_entities when there are entities
RunNormalize ==
    /\ pc = "generate"
    /\ gen' = exhausted(gen)
    /\ \E recs \in [1..session.count -> RunRecords(session.data_type)] :
          BatchesCollected(drain(gen, recs),
                           normalize_batches(NormState, drain(gen, recs),
                                             session.data_type))
    /\ UNCHANGED <<session, backend, batch_num, total_inserted, ins, moreVars>>

\* one turn of the loop over normalized_batches:
\* insert_batch(schema, batch, normalized=True)
RunInsertNormalized ==
    /\ pc = "insert_batch"
    /\ batch_num' = batch_num + 1
    /\ LET batch == normalized_batches[batch_num + 1]
           r == engine_insert_batch(backend, store, session.data_type, batch, TRUE)
       IN AfterInsert(RunCall("insert_batch", session_table_name, TRUE, batch,
                              r.raised, r.returned, get_count(store, session_table_name)),
                      r,
                      IF batch_num + 1 < Len(normalized_batches) THEN "insert_batch"
                      ELSE "get_count")
    /\ UNCHANGED <<session, all_batches, normalized_batches, normVars, genVars, ins,
                   moreVars>>

\* the next() that ends the flat loop, then get_count(table_name), the report,
\* disconnect() and return True
RunFinish ==
    /\ \/ pc = "flat" /\ gen_stops(gen)
       \/ pc = "get_count"
    /\ gen' = IF pc = "flat" THEN gen_stopped(gen) ELSE gen
    /\ calls' = calls
          \o <<RunCall("get_count", session_table_name, FALSE, <<>>, None,
                       get_count(store, session_table_name),
                       get_count(store, session_table_name)),
               RunCall("disconnect", "", FALSE, <<>>, None, 0, 0)>>
    /\ output' = output \o <<Msg("Inserted records into", session_table_name),
                             Msg("Total records in table", ""), Msg("Connection info", "")>>
    /\ backend' = [backend EXCEPT !.conn = "None"]
    /\ result' = "True"
    /\ pc' = "done"
    /\ UNCHANGED <<session, yielded, all_batches, normalized_batches, batch_num,
                   total_inserted, store, normVars, ins, moreVars>>

SeedRun == \E args \in RunArgs : StartRun(args)

NextRuns ==
    SeedRun \/ RunSetup \/ RunFlatBatch \/ RunNormalize \/ RunInsertNormalized \/ RunFinish

SpecRuns == InitRuns /\ [][NextRuns]_vars

-----------------------------------------------------------------------------
(* get_backend(name), called again and again *)

\* the get_backend calls made
MaxLookups == 2

\* the names get_backend is called with: registered names, aliases, either in
\* other cases, and names that are neither
LookupNames ==
    {"postgres", "mysql", "elasticsearch", "duckdb", "pg", "postgresql", "es", "elastic",
     "duck", "Postgres", "PG", "MySQL", "ES", "Duck", "DUCKDB", "oracle", "Oracle",
     "nonexistent", ""}

\* list(BACKENDS.keys())
available == <<"postgres", "mysql", "elasticsearch", "duckdb">>

\* no exception, no instance
NoError == [error |-> "", name |-> "", available |-> <<>>]
NoInstance == [class |-> "", oid |-> 0]

\* ValueError(f"Unknown backend: {name}. Available backends: {available}")
unknown_backend(name) == [error |-> "ValueError", name |-> name, available |-> available]

\* one instance of the class, made once and returned by every call
shared_instance(name, made) == [class |-> resolved_name(name), oid |-> 1]

\* backend_class(): a new object, the made-th + 1 of the process
new_instance(name, made) == [class |-> resolved_name(name), oid |-> made + 1]

\* the instances the logged calls returned
Returned(log) == SelectSeq(log, LAMBDA c : c.instance # NoInstance)

InitRegistry ==
    /\ InitNorm
    /\ gen = NoGenerator
    /\ yielded = <<>>
    /\ InitNoBackend
    /\ InitNoSession
    /\ InitNoRecord
    /\ InitNoReset
    /\ InitNoProbe

\* get_backend(name): raises, or returns the instance it made
GetBackend ==
    /\ Len(calls) < MaxLookups
    /\ \E name \in LookupNames :
          IF get_backend_raises(name)
          THEN /\ calls' = Append(calls, [name |-> name, raised |-> unknown_backend(name),
                                          instance |-> NoInstance])
               /\ UNCHANGED backend
          ELSE /\ calls' = Append(calls, [name |-> name, raised |-> NoError,
                                          instance |-> new_instance(name,
                                                                    Len(Returned(calls)))])
               /\ backend' = get_backend(name)
    /\ UNCHANGED <<pc, session, result, output, all_batches, normalized_batches, batch_num,
                   total_inserted, store, ins, normVars, genVars, moreVars>>

NextRegistry == GetBackend

SpecRegistry == InitRegistry /\ [][NextRegistry]_vars

-----------------------------------------------------------------------------
(* The connection handle of one backend instance under connect(), disconnect()
   and the data operations, called in any order; the driver opens a handle in
   its connect call and closes it in close() *)

\* the calls made on the instance
MaxHandleOps == 4

\* the operations that begin with self.connect()
DataOperations(name) ==
    {"create_table", "insert_batch", "get_count", "truncate_table", "drop_table"}
    \cup (IF name = "elasticsearch" THEN {}
          ELSE {"create_normalized_tables", "insert_normalized_entities"})

\* the Elasticsearch operations whose body is in try / except Exception
swallows(name, op) ==
    name = "elasticsearch" /\ op \in {"get_count", "truncate_table", "drop_table"}

\* no handle was opened, no call made
NoHandles == [opened |-> 0, closed |-> 0, ops |-> 0]
NoCall == [op |-> "", before |-> "None", after |-> "None", opened |-> 0, closed |-> 0,
           connect_raised |-> None, raised |-> None]

\* a connect() that asks the driver for a handle whatever self.conn holds
connect_reopens(b, h, exc) ==
    IF exc = None
    THEN [backend |-> connected(b), handles |-> [h EXCEPT !.opened = @ + 1],
          raised |-> None]
    ELSE [backend |-> b, handles |-> h, raised |-> exc]

\* connect(): the driver is imported, and asked for a handle if self.conn is None;
\* the import or the driver may raise exc, and then self.conn is not assigned. On
\* an instance that holds a handle the import has succeeded before.
connect(b, h, exc) ==
    IF b.conn # "None" THEN [backend |-> b, handles |-> h, raised |-> None]
    ELSE IF exc = None
    THEN [backend |-> connected(b), handles |-> [h EXCEPT !.opened = @ + 1],
          raised |-> None]
    ELSE [backend |-> b, handles |-> h, raised |-> exc]

\* disconnect(): if a handle is held, close() and self.conn = None; a close() that
\* raises leaves self.conn as it was
disconnect(b, h, exc) ==
    IF b.conn = "None" THEN [backend |-> b, handles |-> h, raised |-> None]
    ELSE IF exc = None
    THEN [backend |-> [b EXCEPT !.conn = "None"], handles |-> [h EXCEPT !.closed = @ + 1],
          raised |-> None]
    ELSE [backend |-> b, handles |-> h, raised |-> exc]

\* the record of a call: self.conn before and after, the handles the driver opened
\* and closed during it, what connect() raised inside it and what the caller got
HandleCall(op, b, h, r, connect_raised) ==
    [op |-> op, before |-> b.conn, after |-> r.backend.conn,
     opened |-> r.handles.opened - h.opened, closed |-> r.handles.closed - h.closed,
     connect_raised |-> connect_raised, raised |-> r.raised]

\* a call made: the instance and the driver's handles after it
HandleStep(op, r, connect_raised) ==
    /\ backend' = r.backend
    /\ store' = [r.handles EXCEPT !.ops = @ + 1]
    /\ ins' = HandleCall(op, backend, store, r, connect_raised)
    /\ UNCHANGED <<normVars, genVars, sessVars, moreVars>>

InitHandles ==
    /\ InitNorm
    /\ gen = NoGenerator
    /\ yielded = <<>>
    /\ \E name \in BACKENDS : backend = NewBackend(name)
    /\ store = NoHandles
    /\ ins = NoCall
    /\ InitNoSession
    /\ InitNoRecord
    /\ InitNoReset
    /\ InitNoProbe

\* backend.connect()
HandleConnect ==
    /\ store.ops < MaxHandleOps
    /\ \E exc \in {None} \cup DriverErrors :
          LET r == connect(backend, store, exc) IN HandleStep("connect", r, r.raised)

\* backend.disconnect()
HandleDisconnect ==
    /\ store.ops < MaxHandleOps
    /\ \E exc \in {None, "OperationalError"} :
          HandleStep("disconnect", disconnect(backend, store, exc), None)

\* a data operation: self.connect(), then the statements, which may raise
HandleDataOperation ==
    /\ store.ops < MaxHandleOps
    /\ \E op \in DataOperations(backend.name) :
       \E connect_exc \in {None} \cup DriverErrors :
       \E exc \in {None, "OperationalError"} :
          LET c == connect(backend, store, connect_exc)
              r == IF c.raised # None \/ swallows(backend.name, op) THEN c
                   ELSE [c EXCEPT !.raised = exc]
          IN HandleStep(op, r, c.raised)

NextHandles == HandleConnect \/ HandleDisconnect \/ HandleDataOperation

SpecHandles == InitHandles /\ [][NextHandles]_vars

-----------------------------------------------------------------------------
(* One session of cmd_seed for every --count and --batch-size that the parser of
   the seed command accepts (type=int: any integer), run to its end: each
   statement of the session is executed in its turn, each backend call returns
   or raises *)

\* the largest --count and --batch-size, and the smallest, negated
MaxAccepted == 2

\* the next() calls followed on one generator; a generator that stops yields at
\* most count batches, fewer than this
MaxDrawn == 4

AcceptedArgs ==
    [db : {"postgres"}, type : {"sales_orders"},
     count : (0 - MaxAccepted)..MaxAccepted,
     batch_size : (0 - MaxAccepted)..MaxAccepted,
     normalize : BOOLEAN, clear : {FALSE}, start : {None}, end : {None}]

AcceptedCommand == \E args \in AcceptedArgs : cmd_seed(args)

\* list(generator.generate_batches(count, batch_size)) drawing one more batch
DrawCollected ==
    /\ Len(yielded) < MaxDrawn
    /\ CollectBatch

\* the for statement of the flat loop drawing one more batch, or ending
DrawFlat ==
    /\ gen_stops(gen) \/ Len(yielded) < MaxDrawn
    /\ FlatNextBatch

NextAccepted ==
    \/ AcceptedCommand
    \/ Connect
    \/ CreateNormalizedTables
    \/ CreateTable
    \/ DrawCollected
    \/ NormalizeAll
    \/ InsertNormalizedEntities
    \/ InsertNormalizedBatch
    \/ DrawFlat
    \/ FlatInsertBatch
    \/ GetCount
    \/ Disconnect

\* the interpreter goes on to the next statement for as long as there is one
SpecAccepted == InitSeed /\ [][NextAccepted]_vars /\ WF_vars(NextAccepted)

-----------------------------------------------------------------------------
(* One batch on its way from generate_batch to the INSERT statement of a
   relational backend: the records as generate_record builds them, nullable
   fields drawn NULL or not, normalize_record on each in normalized mode, and the
   column list and rows insert_batch derives *)

\* the largest batch
MaxColumnBatch == 2

\* what field.faker_func() returns: an email, a SKU, or some other value; none
\* of the generators returns an empty value
faker_values(field) ==
    CASE field.name \in {"customer_email", "email"} -> Emails
      [] field.name \in {"product_sku", "sku"} -> Skus
      [] OTHER -> {"v"}

RECURSIVE generated_records_omitting_nulls(_, _)
\* a generate_record that leaves out the key of a nullable field drawn as NULL
generated_records_omitting_nulls(schema, n) ==
    IF n = 0 THEN {<<>>}
    ELSE LET field == schema.fields[n]
             before == generated_records_omitting_nulls(schema, n - 1)
         IN IF skips_field(field) THEN before
            ELSE {Put(rec, field.name, v) : rec \in before, v \in faker_values(field)}
                 \cup (IF field.nullable THEN before ELSE {})

RECURSIVE generated_records(_, _)
\* generate_record(): the records the loop builds over the first n fields of the
\* schema; record[field.name] = None after the nullable roll keeps the key
generated_records(schema, n) ==
    IF n = 0 THEN {<<>>}
    ELSE LET field == schema.fields[n]
             before == generated_records(schema, n - 1)
         IN IF skips_field(field) THEN before
            ELSE {Put(rec, field.name, v) :
                     rec \in before,
                     v \in faker_values(field) \cup (IF field.nullable THEN {None} ELSE {})}

\* no insert_batch call made
NoColumns == [batch |-> <<>>, columns |-> {}, rows |-> <<>>]

\* the column list and the rows of insert_batch: PostgreSQL and MySQL take the
\* keys of the first record but id; DuckDB gives every record an id first and
\* takes all keys of the first record; each row is record.get(col) per column
offered(b, records) ==
    LET given(i) == Cardinality({j \in 1..(i - 1) : lacks_id(records[j])})
        withId == [i \in 1..Len(records) |->
                      IF b.name # "duckdb" \/ ~lacks_id(records[i]) THEN records[i]
                      ELSE Put(records[i], "id", 1 + given(i))]
        columns == IF b.name = "duckdb" THEN DOMAIN withId[1]
                   ELSE (DOMAIN records[1]) \ {"id"}
    IN [batch |-> records, columns |-> columns,
        rows |-> [i \in 1..Len(records) |-> RowOf(withId[i], columns)]]

\* a session of cmd_seed at its loop, in flat or in normalized mode
InitColumns ==
    /\ InitNorm
    /\ gen = NoGenerator
    /\ yielded = <<>>
    /\ \E name \in RunBackends : backend = connected(NewBackend(name))
    /\ store = <<>>
    /\ ins = NoColumns
    /\ \E schema_name \in DOMAIN SCHEMAS, normalized \in BOOLEAN :
          /\ session = [NoSession EXCEPT !.entry = "cmd_seed", !.db = backend.name,
                                         !.data_type = schema_name,
                                         !.count = MaxColumnBatch,
                                         !.batch_size = MaxColumnBatch,
                                         !.normalize = normalized,
                                         !.normalizer = normalized]
          /\ pc = IF normalized THEN "generate" ELSE "flat"
    /\ result = None
    /\ calls = <<>>
    /\ output = <<>>
    /\ all_batches = <<>>
    /\ normalized_batches = <<>>
    /\ batch_num = 0
    /\ total_inserted = 0
    /\ InitNoRecord
    /\ InitNoReset
    /\ InitNoProbe

\* generate_batch(current_batch): [self.generate_record() for _ in range(count)]
ColumnsGenerate ==
    /\ pc \in {"generate", "flat"}
    /\ yielded = <<>>
    /\ \E n \in 1..MaxColumnBatch :
       \E batch \in [1..n -> generated_records(SCHEMAS[session.data_type],
                                               Len(SCHEMAS[session.data_type].fields))] :
          yielded' = <<batch>>
    /\ pc' = IF session.normalize THEN "normalize" ELSE "insert_batch"
    /\ UNCHANGED <<gen, session, result, calls, output, all_batches, normalized_batches,
                   batch_num, total_inserted, normVars, beVars, moreVars>>

\* normalized_batch = [normalizer.normalize_record(r, data_type) for r in batch]
ColumnsNormalize ==
    /\ pc = "normalize"
    /\ LET r == normalize_batch(NormState, yielded[1], session.data_type) IN
          /\ SetNormState(r.ns)
          /\ normLog' = normLog \o LogOf(yielded, <<r.out>>, session.data_type)
          /\ normalized_batches' = <<r.out>>
    /\ all_batches' = yielded
    /\ pc' = "insert_batch"
    /\ UNCHANGED <<genVars, session, result, calls, output, batch_num, total_inserted,
                   beVars, moreVars>>

\* backend.insert_batch(schema, batch, normalized=normalize) up to its INSERT
ColumnsInsert ==
    /\ pc = "insert_batch"
    /\ ins' = offered(backend, IF session.normalize THEN normalized_batches[1]
                               ELSE yielded[1])
    /\ batch_num' = batch_num + 1
    /\ pc' = "done"
    /\ UNCHANGED <<genVars, session, result, calls, output, all_batches,
                   normalized_batches, total_inserted, normVars, backend, store, moreVars>>

NextColumns == ColumnsGenerate \/ ColumnsNormalize \/ ColumnsInsert

SpecColumns == InitColumns /\ [][NextColumns]_vars

-----------------------------------------------------------------------------
(* Claims about the normalizer *)

CustomerSchemas == {"sales_orders", "invoices"}

\* the dedup key a logged call carries: the customer email, or the SKU (primary
\* field name, else the generic one); None when the schema extracts no entity
CustomerKeyOf(e) ==
    IF e.schema \in CustomerSchemas /\ "customer_email" \in DOMAIN e.rec
    THEN e.rec["customer_email"] ELSE None

ProductKeyOf(e) ==
    IF e.schema # "manufacturing_orders" THEN None
    ELSE IF "product_sku" \in DOMAIN e.rec /\ e.rec["product_sku"] \notin {None, ""}
    THEN e.rec["product_sku"]
    ELSE IF "sku" \in DOMAIN e.rec THEN e.rec["sku"] ELSE None

CustomerKeysSeen == {CustomerKeyOf(normLog[i]) : i \in 1..Len(normLog)} \ {None, ""}
ProductKeysSeen == {ProductKeyOf(normLog[i]) : i \in 1..Len(normLog)} \ {None, ""}

\* C1: within one instance, two records with the same non-empty dedup key get the
\* same surrogate id, and each entity table holds exactly one entry per distinct
\* key seen.
C1_SameKeySameId ==
    /\ \A i, j \in 1..Len(normLog) :
          /\ CustomerKeyOf(normLog[i]) \notin {None, ""}
          /\ CustomerKeyOf(normLog[i]) = CustomerKeyOf(normLog[j])
          => /\ "customer_id" \in DOMAIN normLog[i].out
             /\ "customer_id" \in DOMAIN normLog[j].out
             /\ normLog[i].out["customer_id"] = normLog[j].out["customer_id"]
    /\ \A i, j \in 1..Len(normLog) :
          /\ ProductKeyOf(normLog[i]) \notin {None, ""}
          /\ ProductKeyOf(normLog[i]) = ProductKeyOf(normLog[j])
          => /\ "product_id" \in DOMAIN normLog[i].out
             /\ "product_id" \in DOMAIN normLog[j].out
             /\ normLog[i].out["product_id"] = normLog[j].out["product_id"]
    /\ Len(get_customers_table(NormState)) = Cardinality(CustomerKeysSeen)
    /\ Len(get_products_table(NormState)) = Cardinality(ProductKeysSeen)
    /\ \A k \in CustomerKeysSeen :
          \E i \in 1..Len(customers) : get_customers_table(NormState)[i].email = k
    /\ \A k \in ProductKeysSeen :
          \E i \in 1..Len(products) : get_products_table(NormState)[i].sku = k

\* two calls with the same email and different attributes were made, and a call
\* for another customer
C1_Witness ==
    \E i, j, k \in 1..Len(normLog) :
        /\ i < j
        /\ normLog[i].rec = rc1 /\ normLog[j].rec = rc2 /\ normLog[k].rec = rc3
        /\ {normLog[i].schema, normLog[j].schema, normLog[k].schema} \subseteq CustomerSchemas
        /\ normLog[i].out["customer_id"] = normLog[j].out["customer_id"]
        /\ Len(customers) = 2

RECURSIVE CustomerFirstSeen(_)
\* the distinct non-empty customer keys of the first n logged calls, in the order
\* of their first occurrence
CustomerFirstSeen(n) ==
    IF n = 0 THEN <<>>
    ELSE LET prev == CustomerFirstSeen(n - 1)
             k == CustomerKeyOf(normLog[n])
         IN IF k \in {None, ""} \/ (\E i \in 1..Len(prev) : prev[i] = k)
            THEN prev ELSE Append(prev, k)

RECURSIVE ProductFirstSeen(_)
ProductFirstSeen(n) ==
    IF n = 0 THEN <<>>
    ELSE LET prev == ProductFirstSeen(n - 1)
             k == ProductKeyOf(normLog[n])
         IN IF k \in {None, ""} \/ (\E i \in 1..Len(prev) : prev[i] = k)
            THEN prev ELSE Append(prev, k)

\* C2: the ids listed by get_customers_table() are 1..N in first-seen order, those
\* of get_products_table() are 1..M in first-seen order, and each counter is one
\* past the number of its own entities (the counters advance independently).
C2_SequentialIds ==
    LET ct == get_customers_table(NormState)
        pt == get_products_table(NormState)
    IN /\ \A i \in 1..Len(ct) : ct[i].id = i
       /\ [i \in 1..Len(ct) |-> ct[i].email] = CustomerFirstSeen(Len(normLog))
       /\ \A i \in 1..Len(pt) : pt[i].id = i
       /\ [i \in 1..Len(pt) |-> pt[i].sku] = ProductFirstSeen(Len(normLog))
       /\ customer_id_counter = Len(ct) + 1
       /\ product_id_counter = Len(pt) + 1

\* a product was created between two customers
C2_Witness ==
    /\ Len(normLog) = 3
    /\ normLog[1].rec = rc3 /\ normLog[2].rec = rp3 /\ normLog[3].rec = rc1
    /\ Len(customers) = 2 /\ Len(products) = 1
    /\ customer_id_counter = 3 /\ product_id_counter = 2

\* C3: once an entity exists for a key, no later normalize_record call changes its
\* id or attributes.
C3_EntityFrozen ==
    [][normLog' # <<>> =>
          /\ Len(customers') >= Len(customers)
          /\ SubSeq(customers', 1, Len(customers)) = customers
          /\ Len(products') >= Len(products)
          /\ SubSeq(products', 1, Len(products)) = products]_vars

\* after rc1 created the customer, rc2 came with the same email and another name and
\* phone, and the stored customer is still the one of rc1
C3_Witness ==
    /\ Len(normLog) >= 2
    /\ normLog[1].rec = rc1 /\ normLog[2].rec = rc2
    /\ normLog[1].schema = "sales_orders" /\ normLog[2].schema = "invoices"
    /\ get_customers_table(NormState) =
          <<[id |-> 1, name |-> "Ann", email |-> "a@x", phone |-> "555-1"]>>

-----------------------------------------------------------------------------
(* Claims about insert_batch *)

RECURSIVE NonColliding(_, _)
\* the records of a batch whose order number is not among those seen, each record
\* kept adding its own to them
NonColliding(seen, batch) ==
    IF batch = <<>> THEN <<>>
    ELSE IF Head(batch)["order_number"] \in seen
    THEN NonColliding(seen, Tail(batch))
    ELSE <<Head(batch)>>
         \o NonColliding(seen \cup {Head(batch)["order_number"]}, Tail(batch))

\* the records of the last batch that collide with no row persisted before them;
\* an Elasticsearch index has no unique field
LastBatchKept ==
    IF backend.name = "elasticsearch" THEN ins.batch
    ELSE NonColliding({ins.before[i]["order_number"] : i \in 1..Len(ins.before)},
                      ins.batch)

\* k: the records of the last batch that collide
LastBatchColliding == Len(ins.batch) - Len(LastBatchKept)

\* a stored row without the id the backend or the engine gave it
WithoutId(row) == [c \in (DOMAIN row) \ {"id"} |-> row[c]]

\* the rows the last insert_batch call added
LastBatchPersisted ==
    LET rows == store["sales_orders"].rows
    IN [i \in 1..(Len(rows) - Len(ins.before)) |-> WithoutId(rows[Len(ins.before) + i])]

\* C5: for every backend, insert_batch on a batch with k records whose unique
\* field collides with an already-persisted row persists the other rows and
\* returns the batch size minus k (every call here returns: none raises).
C5_CountIsRowsPersisted ==
    (ins.calls > 0 /\ ins.failed = {}) =>
        /\ LastBatchPersisted = LastBatchKept
        /\ ins.returned = Len(ins.batch) - LastBatchColliding

\* the same, of the backends that count the rows the engine reports as written
C5_HoldsOfOtherBackends ==
    backend.name \in {"postgres", "mysql", "elasticsearch"} => C5_CountIsRowsPersisted

\* a batch of two records, one of them colliding with a row of an earlier batch
C5_Witness ==
    /\ ins.calls = 2
    /\ Len(ins.before) = 1
    /\ Len(ins.batch) = 2
    /\ Len(LastBatchKept) = 1

-----------------------------------------------------------------------------
(* Claims about generate_batches *)

RECURSIVE SumLens(_)
\* the number of records in a sequence of batches
SumLens(batches) ==
    IF batches = <<>> THEN 0 ELSE Len(Head(batches)) + SumLens(Tail(batches))

\* ceil(a / b), for a >= 1 and b >= 1
Ceil(a, b) == CHOOSE n \in 1..a : n * b >= a /\ (n - 1) * b < a

\* C10: for total >= 1 and batch_size >= 1, generate_batches yields exactly
\* ceil(total / batch_size) batches, every batch but the last has batch_size
\* records, no batch is empty, and the sizes sum to total.
C10_BatchPartition ==
    (gen.total >= 1 /\ gen.batch_size >= 1) =>
        /\ \A i \in 1..Len(yielded) :
              Len(yielded[i]) >= 1 /\ Len(yielded[i]) <= gen.batch_size
        /\ \A i \in 1..(Len(yielded) - 1) : Len(yielded[i]) = gen.batch_size
        /\ SumLens(yielded) <= gen.total
        /\ gen.at = "done" =>
              /\ Len(yielded) = Ceil(gen.total, gen.batch_size)
              /\ SumLens(yielded) = gen.total

\* 5 records in batches of 2: sizes 2, 2, 1 (as 25 in batches of 10: 10, 10, 5)
C10_Witness ==
    /\ gen.total = 5 /\ gen.batch_size = 2 /\ gen.at = "done"
    /\ [i \in 1..Len(yielded) |-> Len(yielded[i])] = <<2, 2, 1>>

-----------------------------------------------------------------------------
(* Claims about a seeding session *)

\* the positions in calls of the calls of the operations in ops
CallsOf(ops) == {i \in 1..Len(calls) : calls[i].op \in ops}

\* the entry point has returned False / True
Failed == pc = "done" /\ result = "False"
Succeeded == pc = "done" /\ result = "True"

\* the session got past the checks made before the try block
Validated ==
    \/ session.entry = "run_generation"
    \/ session.entry = "cmd_seed" /\ seed_refusal(session.args) = <<>>

\* a message was printed
Printed(msg) == \E i \in 1..Len(output) : output[i].msg = msg

RECURSIVE Flatten(_)
\* the records of a list of batches, in order
Flatten(batches) ==
    IF batches = <<>> THEN <<>> ELSE Head(batches) \o Flatten(Tail(batches))

\* the session runs normalized
NormalizedSession == Validated /\ session.normalize /\ session.normalizer

\* the insert_batch calls made, in order
InsertBatchCalls == SelectSeq(calls, LAMBDA c : c.op = "insert_batch")

C6_AbortDisconnects ==
    (Failed /\ calls # <<>>) =>
        \/ backend.conn = "None"
        \/ CallsOf({"disconnect"}) # {}

\* a start or end date that is given and is not a YYYY-MM-DD date
MalformedDate(s) == s # None /\ strptime_raises(s)

\* an invocation the claim says is refused
InvalidInvocation(args) ==
    \/ MalformedDate(args.start)
    \/ MalformedDate(args.end)
    \/ args.type \notin valid_types
    \/ get_backend_raises(args.db)

\* the invocation was refused: an error reported, False returned, no backend
\* operation invoked
Refused == Failed /\ output # <<>> /\ calls = <<>>

\* C7: a CLI seeding invocation with a malformed start or end date, an unknown
\* schema name or an unknown backend name reports an error and returns failure
\* without having invoked any backend operation.
C7_InvalidInvocationRefused ==
    (session.entry = "cmd_seed" /\ InvalidInvocation(session.args)) => Refused

\* the same, of the dates that are not the empty string
C7_NonEmptyInvalidRefused ==
    (session.entry = "cmd_seed"
     /\ (\/ Truthy(session.args.start) /\ strptime_raises(session.args.start)
         \/ Truthy(session.args.end) /\ strptime_raises(session.args.end)
         \/ session.args.type \notin valid_types
         \/ get_backend_raises(session.args.db)))
    => Refused

\* an invocation with an unparsable start date was refused
C7_Witness ==
    /\ session.entry = "cmd_seed" /\ session.args.start = "not-a-date"
    /\ Refused
    /\ output[1] = Msg("Invalid start date format", "not-a-date")

\* C8: when normalization is requested against a backend that does not support it,
\* the session emits a warning and runs in flat mode: no create_normalized_tables,
\* no insert_normalized_entities, every create_table / insert_batch call with
\* normalized = false, the un-suffixed table name everywhere; and it completes
\* successfully (it returns True unless a backend call raises).
C8_UnsupportedFallsBackToFlat ==
    (Validated /\ session.args.normalize /\ ~supports_normalization(backend.name)) =>
        /\ Printed("Normalization not supported. Using flat mode.")
        /\ ~session.normalize
        /\ CallsOf({"create_normalized_tables", "insert_normalized_entities"}) = {}
        /\ \A i \in 1..Len(calls) :
              /\ ~calls[i].normalized
              /\ calls[i].table \in {"", session.data_type}
        /\ pc = "done" =>
              \/ Succeeded
              \/ \E i \in CallsOf({"connect", "create_table", "insert_batch", "get_count",
                                   "disconnect"}) : calls[i].raised # None

\* --normalize --clear against Elasticsearch: the session has succeeded, having
\* dropped and created the un-suffixed index and inserted flat batches
C8_Witness ==
    /\ Validated /\ session.args.normalize /\ session.clear
    /\ backend.name = "elasticsearch"
    /\ Succeeded
    /\ CallsOf({"drop_table"}) # {} /\ CallsOf({"create_table"}) # {}
    /\ Len(InsertBatchCalls) = 2

\* the place of an operation in the order of a session
Rank(op) ==
    CASE op = "connect" -> 1
      [] op = "drop_table" -> 2
      [] op = "create_normalized_tables" -> 3
      [] op = "create_table" -> 4
      [] op = "insert_normalized_entities" -> 5
      [] op = "insert_batch" -> 6
      [] op = "get_count" -> 7
      [] op = "disconnect" -> 8

\* C9: every successful session performs its backend operations in the order
\* connect, drop tables (only when clear is set), create entity tables (only in
\* normalized mode), create main table, insert entities (only in normalized mode),
\* insert record batches, get_count, disconnect; success is reported only after
\* the final count was queried, and the session ends disconnected.
C9_SuccessfulSessionOrder ==
    Succeeded =>
        LET n(op) == Cardinality(CallsOf({op})) IN
        /\ \A i, j \in 1..Len(calls) : i < j => Rank(calls[i].op) <= Rank(calls[j].op)
        /\ n("connect") = 1
        /\ (n("drop_table") > 0) = session.clear
        /\ n("create_normalized_tables") = IF session.normalize THEN 1 ELSE 0
        /\ n("create_table") = 1
        /\ n("insert_normalized_entities") <= (IF session.normalize THEN 1 ELSE 0)
        /\ n("insert_batch") = Len(yielded)
        /\ n("insert_batch") >= 1
        /\ n("get_count") = 1
        /\ n("disconnect") = 1
        /\ \A i \in 1..Len(calls) : calls[i].raised # None => calls[i].op = "drop_table"
        /\ Printed("Inserted records into")
        /\ backend.conn = "None"

\* a normalized session with clear set has succeeded through all eight kinds of
\* operation
C9_Witness ==
    /\ Succeeded
    /\ session.clear /\ session.normalize
    /\ {calls[i].op : i \in 1..Len(calls)} =
          {"connect", "drop_table", "create_normalized_tables", "create_table",
           "insert_normalized_entities", "insert_batch", "get_count", "disconnect"}
    /\ Len(InsertBatchCalls) = 2

-----------------------------------------------------------------------------
(* Claims about generate_record *)

\* generate_record has returned the record built
RecordReturned ==
    /\ field_index > 0
    /\ field_index > Len(GeneratorSchemas[generator.schema].fields)

\* the fields of the generator's schema
SchemaFields ==
    LET fields == GeneratorSchemas[generator.schema].fields
    IN {fields[i] : i \in 1..Len(fields)}

\* C11: for every registered schema, generate_record returns a record that holds
\* every non-nullable field of the schema other than id with a non-null value, and
\* does not hold the key id.
C11_RecordHasRequiredFieldsAndNoId ==
    (RecordReturned /\ generator.schema \in DOMAIN SCHEMAS) =>
        /\ \A field \in SchemaFields :
              (~field.nullable /\ field.name # "id") =>
                  /\ field.name \in DOMAIN built
                  /\ built[field.name] # NoneValue
        /\ "id" \notin DOMAIN built

\* a sales order was returned with its two nullable fields None and all 18 fields
\* but id
C11_Witness ==
    /\ RecordReturned /\ generator.schema = "sales_orders"
    /\ built["ship_date"] = NoneValue /\ built["notes"] = NoneValue
    /\ Cardinality(DOMAIN built) = 18

\* C12: for every record generated with a window [start, end], start <= end, the
\* value of the time field lies within [start, end], and every other timestamp
\* field that is not None lies within [start, end + 30 days], wherever the field
\* stands relative to the time field in the field order.
C12_TimestampsInWindow ==
    RecordReturned =>
        LET time_field == GeneratorSchemas[generator.schema].time_field IN
        /\ built[time_field].type = "datetime"
        /\ built[time_field].days \in generator.start_date..generator.end_date
        /\ \A field \in SchemaFields :
              (field.sql_type = "TIMESTAMP" /\ built[field.name] # NoneValue) =>
                  /\ built[field.name].type = "datetime"
                  /\ built[field.name].days \in
                        generator.start_date..(generator.end_date + MaxOffsetDays)

\* a record whose time field is the last day of the window, a later timestamp 30
\* days after it, and a timestamp that stands before the time field inside the
\* window
C12_Witness ==
    /\ RecordReturned /\ generator.schema = "audit_events"
    /\ generator.start_date = 0 /\ generator.end_date = 1
    /\ built["occurred_at"] = Datetime(1)
    /\ built["reviewed_at"] = Datetime(1 + MaxOffsetDays)
    /\ built["received_at"] = Datetime(0)

-----------------------------------------------------------------------------
(* Claims about normalize_record on records it does not change *)

\* the call the step logs
LoggedCall == normLog'[Len(normLog')]

\* the step is a normalize_record call
NormalizeStep == Len(normLog') = Len(normLog) + 1

\* the step leaves the entity tables and both id counters as they were
NormalizerUntouched ==
    /\ customers' = customers
    /\ products' = products
    /\ customer_id_counter' = customer_id_counter
    /\ product_id_counter' = product_id_counter

\* C13: normalize_record with a schema name other than sales_orders, invoices or
\* manufacturing_orders returns a record with exactly the key set and values of
\* its input, and leaves the entity tables and both id counters unchanged.
C13_OtherSchemasPassThrough ==
    [][(NormalizeStep
        /\ LoggedCall.schema \notin {"sales_orders", "invoices", "manufacturing_orders"})
       => (/\ DOMAIN LoggedCall.out = DOMAIN LoggedCall.rec
           /\ LoggedCall.out = LoggedCall.rec
           /\ NormalizerUntouched)]_vars

\* after rc1 created customer 1 as a sales order, the same record came as a
\* contacts record and was returned as it is, the customer table still of one
C13_Witness ==
    /\ Len(normLog) = 2
    /\ normLog[1].schema = "sales_orders" /\ normLog[1].rec = rc1
    /\ normLog[2].schema = "contacts" /\ normLog[2].rec = rc1
    /\ normLog[2].out = rc1
    /\ Len(customers) = 1 /\ customer_id_counter = 2

\* the record of the logged call has no identifying field for the extraction its
\* schema name routes it to
NoIdentifyingField ==
    \/ /\ LoggedCall.schema \in {"sales_orders", "invoices"}
       /\ ~Truthy(Get(LoggedCall.rec, "customer_email"))
    \/ /\ LoggedCall.schema = "manufacturing_orders"
       /\ ~Truthy(Get(LoggedCall.rec, "product_sku"))
       /\ ~Truthy(Get(LoggedCall.rec, "sku"))

\* C14: when a record routed to customer or product extraction has its
\* identifying field absent or empty, normalize_record creates no entity, does
\* not advance the id counter, attaches no customer_id / product_id, and returns
\* the record with its denormalized fields in place (the call returns: it raises
\* nothing).
C14_NoKeyNoEntity ==
    [][(NormalizeStep /\ NoIdentifyingField)
       => (/\ NormalizerUntouched
           /\ "customer_id" \notin DOMAIN LoggedCall.out
           /\ "product_id" \notin DOMAIN LoggedCall.out
           /\ LoggedCall.out = LoggedCall.rec)]_vars

\* a sales order with an empty email, an invoice without customer fields and a
\* work order with an empty SKU went through a fresh instance: all came back as
\* they were and the instance is still fresh
C14_Witness ==
    /\ Len(normLog) = 3
    /\ normLog[1] = [schema |-> "sales_orders", rec |-> rc4, out |-> rc4]
    /\ normLog[2] = [schema |-> "invoices", rec |-> rc6, out |-> rc6]
    /\ normLog[3] = [schema |-> "manufacturing_orders", rec |-> rp6, out |-> rp6]
    /\ NormState = FreshNormalizer

\* the SKU the logged call carries: the primary field, else the generic one
LoggedSku == Or(Get(LoggedCall.rec, "product_sku"), Get(LoggedCall.rec, "sku"))

\* the logged call resolved or created the product of its SKU and attached its id
ProductResolved ==
    /\ HasKey(products', LoggedSku)
    /\ Lookup(products', LoggedSku).sku = LoggedSku
    /\ "product_id" \in DOMAIN LoggedCall.out
    /\ LoggedCall.out["product_id"] = Lookup(products', LoggedSku).id
    /\ HasKey(products, LoggedSku) => products' = products

\* C15: for a manufacturing_orders record carrying a non-empty SKU, under the
\* primary SKU field name or else under the generic sku field name,
\* normalize_record resolves or creates a Product by that SKU, attaches
\* product_id, and strips the denormalized product fields (name, sku) from the
\* output whichever field name supplied the SKU.
C15_ProductExtractedAndStripped ==
    [][(NormalizeStep /\ LoggedCall.schema = "manufacturing_orders" /\ Truthy(LoggedSku))
       => (/\ ProductResolved
           /\ DOMAIN LoggedCall.out
                \cap {"product_name", "product_sku", "name", "sku"} = {})]_vars

\* the same, of the primary field names only
C15_PrimaryFieldsStripped ==
    [][(NormalizeStep /\ LoggedCall.schema = "manufacturing_orders" /\ Truthy(LoggedSku))
       => (/\ ProductResolved
           /\ DOMAIN LoggedCall.out \cap {"product_name", "product_sku"} = {}
           /\ \A k \in (DOMAIN LoggedCall.rec) \ {"product_name", "product_sku"} :
                 k \in DOMAIN LoggedCall.out /\ LoggedCall.out[k] = LoggedCall.rec[k])]_vars

\* a work order whose SKU stands under the generic field name created product 1
C15_Witness ==
    /\ Len(normLog) = 1
    /\ normLog[1].schema = "manufacturing_orders" /\ normLog[1].rec = rp3
    /\ normLog[1].out["product_id"] = 1
    /\ get_products_table(NormState) = <<[id |-> 1, sku |-> "SKU-2", name |-> "Gizmo"]>>

-----------------------------------------------------------------------------
(* Claims about reset *)

RECURSIVE Replay(_, _)
\* the calls of a log made one after the other on an instance: the instance
\* afterwards and the records returned
Replay(ns, log) ==
    IF log = <<>> THEN [ns |-> ns, out |-> <<>>]
    ELSE LET r == normalize(ns, Head(log).rec, Head(log).schema)
             rest == Replay(r.ns, Tail(log))
         IN [ns |-> rest.ns, out |-> <<r.out>> \o rest.out]

\* C16: reset() on a DataNormalizer that has accumulated any number of customers
\* and products leaves both entity tables empty and both counters at 1, so the
\* normalize_record calls made after it return the same records and ids as the
\* same calls made on a fresh instance.
C16_ResetIsFresh ==
    discarded # NotReset =>
        /\ normLog = <<>> => NormState = FreshNormalizer
        /\ Replay(FreshNormalizer, normLog).out = [i \in 1..Len(normLog) |-> normLog[i].out]
        /\ Replay(FreshNormalizer, normLog).ns = NormState

\* an instance holding two customers and a product was reset; the customer that
\* had id 2 before now got id 1, and the product id 1 again
C16_Witness ==
    /\ discarded = [customers |-> 2, products |-> 1]
    /\ Len(normLog) = 2
    /\ normLog[1].rec = rc3 /\ normLog[1].out["customer_id"] = 1
    /\ normLog[2].rec = rp3 /\ normLog[2].out["product_id"] = 1
    /\ customer_id_counter = 2 /\ product_id_counter = 2

-----------------------------------------------------------------------------
(* Claims about the ids DuckDB assigns *)

RECURSIVE Concat(_)
Concat(seqs) == IF seqs = <<>> THEN <<>> ELSE Head(seqs) \o Concat(Tail(seqs))

\* the logged calls on table t that assigned an id
AssigningCalls(t) ==
    SelectSeq(id_log, LAMBDA e : e.table = t /\ e.assigned # <<>>)

\* every id assigned on table t over the life of the instance, in order
AssignedIds(t) ==
    LET cs == AssigningCalls(t) IN Concat([i \in 1..Len(cs) |-> cs[i].assigned])

IdTables == {"sales_orders", "sales_orders_normalized"}

\* C17: for each table, over all insert_batch calls of one DuckDB instance with
\* records that lack an id, the first id assigned is the MAX(id) read from the
\* table at the first such call plus one (1 for an empty table), the ids assigned
\* are strictly increasing across records and batches, and none is assigned twice.
C17_IdsSeededThenIncreasing ==
    \A t \in IdTables :
        LET cs == AssigningCalls(t)
            ids == AssignedIds(t)
        IN /\ cs # <<>> =>
                /\ Len(cs[1].max_read) = 1
                /\ ids[1] = cs[1].max_read[1] + 1
                /\ \A i \in 2..Len(cs) : cs[i].max_read = <<>>
           /\ \A i \in 1..Len(ids) : \A j \in 1..Len(ids) :
                i < j => ids[i] < ids[j]

\* two calls on the table that held the row with id 3 assigned 4, 5 and then 6,
\* the second row of the first call being ignored as a conflict, and a call on
\* the empty twin table assigned 1
C17_Witness ==
    /\ Len(id_log) = 3
    /\ Len(AssigningCalls("sales_orders")) = 2
    /\ Len(AssigningCalls("sales_orders_normalized")) = 1
    /\ AssigningCalls("sales_orders")[1].max_read = <<StoredId>>
    /\ AssignedIds("sales_orders") = <<StoredId + 1, StoredId + 2, StoredId + 3>>
    /\ "sales_orders" \in DOMAIN store
    /\ Len(store["sales_orders"].rows) = 3
    /\ AssigningCalls("sales_orders_normalized")[1].max_read = <<0>>
    /\ AssignedIds("sales_orders_normalized") = <<1>>

-----------------------------------------------------------------------------
(* Claims about the Elasticsearch insert_batch *)

\* an insert_batch call on the Elasticsearch backend is made in this step
EsInsertStep == backend.name = "elasticsearch" /\ ins'.calls = ins.calls + 1

\* the documents of the batch the engine did not reject, in order
Accepted(batch, failed) ==
    LET kept == SelectSeq([i \in 1..Len(batch) |-> [pos |-> i, doc |-> batch[i]]],
                          LAMBDA x : x.pos \notin failed)
    IN [i \in 1..Len(kept) |-> kept[i].doc]

\* C18: insert_batch of the Elasticsearch backend, on a bulk response reporting
\* failed items, does not fail the batch and returns the number of items indexed
\* without error; on a response without errors it returns the batch size; on an
\* empty batch it returns 0 without contacting the engine.
C18_BulkCountsIndexedItems ==
    [][EsInsertStep =>
        LET batch == ins'.batch
            rejected == ins'.failed
        IN /\ batch = <<>> =>
                /\ ins'.returned = 0
                /\ backend' = backend
                /\ store' = store
           /\ (batch # <<>> /\ rejected = {}) =>
                /\ ins'.returned = Len(batch)
                /\ store'["sales_orders"].rows = store["sales_orders"].rows \o batch
           /\ (batch # <<>> /\ rejected # {}) =>
                /\ ins'.returned = Len(batch) - Cardinality(rejected)
                /\ store'["sales_orders"].rows =
                      store["sales_orders"].rows \o Accepted(batch, rejected)]_vars

\* the engine rejected the second of two documents: the call returned 1 and the
\* index holds the first
C18_Witness ==
    /\ backend.name = "elasticsearch"
    /\ ins.calls = 1
    /\ Len(ins.batch) = 2
    /\ ins.failed = {2}
    /\ ins.returned = 1
    /\ store["sales_orders"].rows = <<ins.batch[1]>>

-----------------------------------------------------------------------------
(* Claims about is_healthy *)

\* an is_healthy call was made on a backend that inherits the default
DefaultProbed == backend.name # "elasticsearch" /\ health.calls > 0

\* C19: the default is_healthy() attempts connect then disconnect and returns
\* true exactly when both succeed; on a failure of either step it returns false,
\* and it never propagates the underlying error to the caller.
C19_HealthyIffBothSucceed ==
    DefaultProbed =>
        /\ health.attempted \in {<<"connect">>, <<"connect", "disconnect">>}
        /\ health.attempted = <<"connect">> <=> health.raised_in = "connect"
        /\ health.returned = "True" <=>
              (health.attempted = <<"connect", "disconnect">> /\ health.raised_in = None)
        /\ health.raised_in # None => health.returned = "False"
        /\ health.propagated = None

\* a third call on a PostgreSQL backend connected and then failed to close the
\* connection: it returned False, nothing was raised to the caller
C19_Witness ==
    /\ backend.name = "postgres"
    /\ backend.conn = "open"
    /\ health.calls = 3
    /\ health.attempted = <<"connect", "disconnect">>
    /\ health.raised_in = "disconnect"
    /\ health.exc = "OperationalError"
    /\ health.returned = "False"
    /\ health.propagated = None

-----------------------------------------------------------------------------
(* Claims about the clear block of a seeding session *)

\* the session was asked to clear existing data
ClearRequested == Validated /\ session.clear

\* the calls that create a table or insert rows
CreatingCalls ==
    CallsOf({"create_normalized_tables", "create_table", "insert_normalized_entities",
             "insert_batch"})

\* a drop_table call on table t returned before any table was created or any row
\* inserted
DroppedFirst(t) ==
    \E i \in CallsOf({"drop_table"}) :
        /\ calls[i].table = t
        /\ calls[i].raised = None
        /\ \A j \in CreatingCalls : i < j

ClearedBeforeRecreation ==
    /\ DroppedFirst(session_table_name)
    /\ session.normalize =>
          /\ DroppedFirst("customers")
          /\ DroppedFirst("products_normalized")
    /\ ~session.normalize =>
          \A i \in CallsOf({"drop_table"}) : calls[i].table = session_table_name

\* C20: when clear-existing is requested, the target table is dropped before any
\* table is created or any row inserted; in normalized mode the normalized target
\* table and both shared entity tables (customers, products_normalized) are all
\* dropped before recreation, and in flat mode only the target table is dropped.
C20_ClearDropsBeforeRecreation ==
    (ClearRequested /\ CreatingCalls # {}) => ClearedBeforeRecreation

\* the same, of the sessions in which no drop_table call raised
C20_HoldsWhenDropsReturn ==
    (ClearRequested /\ CreatingCalls # {}
       /\ \A i \in CallsOf({"drop_table"}) : calls[i].raised = None)
    => ClearedBeforeRecreation

\* a normalized session asked to clear succeeded although its first drop_table
\* raised: no table was dropped, the entity tables and the target were created
\* over what was there, and rows were inserted
C20_Witness ==
    /\ Succeeded
    /\ session.entry = "cmd_seed"
    /\ session.clear /\ session.normalize
    /\ Cardinality(CallsOf({"drop_table"})) = 1
    /\ \A i \in CallsOf({"drop_table"}) :
          calls[i].table = session_table_name /\ calls[i].raised = "Exception"
    /\ CallsOf({"create_normalized_tables"}) # {}
    /\ CallsOf({"insert_batch"}) # {}

-----------------------------------------------------------------------------
(* Claims about a drop_table that raises *)

\* the drop_table calls that raised
RaisedDrops == {i \in CallsOf({"drop_table"}) : calls[i].raised # None}

CreationOps == {"create_normalized_tables", "create_table"}

\* C21: a failure raised by drop_table during the clear-existing step is swallowed:
\* the session does not abort and proceeds to table creation and insertion.
C21_DropFailureSwallowed ==
    \A i \in RaisedDrops :
        IF i < Len(calls)
        THEN calls[i + 1].op \in CreationOps
        ELSE pc \in CreationOps /\ result = None /\ ~Printed("Error")

\* a flat session of the menu whose drop_table raised went on to create the table,
\* insert two batches and return True
C21_Witness ==
    /\ Succeeded
    /\ session.entry = "run_generation"
    /\ ~session.normalize
    /\ RaisedDrops # {}
    /\ CallsOf({"create_table"}) # {}
    /\ Cardinality(CallsOf({"insert_batch"})) = 2
    /\ \A i \in RaisedDrops : \A j \in CallsOf({"create_table", "insert_batch"}) : i < j

-----------------------------------------------------------------------------
(* Claims about sessions run against the tables of an engine *)

\* ceil(n / b) of positive integers
CeilDiv(n, b) == (n + b - 1) \div b

\* the session is a flat one that has returned True
FlatRunDone == pc = "done" /\ result = "True" /\ ~session.normalize

\* the table held no row when the session created it
CreatedEmpty == \E i \in CallsOf({"create_table"}) : calls[i].rows = 0

\* the calls that find the rows of the target table, in order
TableCalls == SelectSeq(calls, LAMBDA c : c.op \in {"insert_batch", "get_count"})

\* every row handed to insert_batch was in the table at the next call
EveryRowPersisted ==
    \A k \in 1..(Len(TableCalls) - 1) :
        TableCalls[k + 1].rows = TableCalls[k].rows + Len(TableCalls[k].data)

\* C22: in a flat-mode session with record count N and batch size B (both
\* positive) against a backend that persists every row into an initially empty
\* table, insert_batch is called exactly ceil(N/B) times, the reported inserted
\* total equals N and the final count equals N.
C22_FlatSessionCounts ==
    (FlatRunDone /\ CreatedEmpty /\ EveryRowPersisted) =>
        /\ Cardinality(CallsOf({"insert_batch"})) = CeilDiv(session.count, session.batch_size)
        /\ total_inserted = session.count
        /\ \A i \in CallsOf({"get_count"}) : calls[i].returned = session.count

\* two records seeded flat in batches of one into a new table: two insert_batch
\* calls, two records reported, a final count of two
C22_Witness ==
    /\ FlatRunDone /\ CreatedEmpty /\ EveryRowPersisted
    /\ session.count = 2 /\ session.batch_size = 1
    /\ Cardinality(CallsOf({"insert_batch"})) = 2
    /\ total_inserted = 2
    /\ \E i \in CallsOf({"get_count"}) : calls[i].returned = 2

-----------------------------------------------------------------------------
(* Claims about a normalized sales_orders session *)

\* a normalized sales_orders session has returned True
NormalizedOrdersDone ==
    /\ pc = "done" /\ result = "True"
    /\ session.normalize /\ session.data_type = "sales_orders"

\* the distinct customer emails of the generated records
GeneratedEmails ==
    {Flatten(yielded)[i]["customer_email"] : i \in 1..Len(Flatten(yielded))}

\* the records handed to insert_batch, in order
HandedRecords ==
    Flatten([i \in 1..Len(InsertBatchCalls) |-> InsertBatchCalls[i].data])

\* C23: in a normalized sales_orders session whose generated records carry K
\* distinct customer emails, exactly K customer entities are handed to
\* insert_normalized_entities, every generated record is inserted as a main
\* record, and each inserted record's customer_id equals the id of one of those K
\* entities.
C23_OneEntityPerEmail ==
    NormalizedOrdersDone =>
        /\ Cardinality(CallsOf({"insert_normalized_entities"})) = 1
        /\ \A e \in CallsOf({"insert_normalized_entities"}) :
              LET handed == calls[e].data[1]
                  ids == {handed[i]["id"] : i \in 1..Len(handed)}
              IN /\ Len(handed) = Cardinality(GeneratedEmails)
                 /\ {handed[i]["email"] : i \in 1..Len(handed)} = GeneratedEmails
                 /\ Cardinality(ids) = Len(handed)
                 /\ Len(HandedRecords) = Len(Flatten(yielded))
                 /\ Len(HandedRecords) = session.count
                 /\ \A i \in 1..Len(HandedRecords) :
                       /\ "customer_id" \in DOMAIN HandedRecords[i]
                       /\ HandedRecords[i]["customer_id"] \in ids
                 /\ session.run = "first" =>
                       /\ Len(store["customers"].rows) = Cardinality(GeneratedEmails)
                       /\ Len(store["sales_orders_normalized"].rows) = session.count
                       /\ \A i \in 1..session.count :
                             store["sales_orders_normalized"].rows[i]["customer_id"] \in ids

\* two orders of one customer, seeded normalized into a new database: one
\* customer entity, two order rows that both name its id
C23_Witness ==
    /\ NormalizedOrdersDone
    /\ session.run = "first"
    /\ session.count = 2
    /\ Cardinality(GeneratedEmails) = 1
    /\ Len(store["customers"].rows) = 1
    /\ Len(store["sales_orders_normalized"].rows) = 2
    /\ \A i \in 1..2 : store["sales_orders_normalized"].rows[i]["customer_id"] = 1

-----------------------------------------------------------------------------
(* Claims about get_backend *)

\* the names the registry knows, in lower case, and the class each stands for
KnownNames ==
    [n \in BACKENDS |-> n]
    @@ ("pg" :> "postgres") @@ ("postgresql" :> "postgres") @@ ("es" :> "elasticsearch")
    @@ ("elastic" :> "elasticsearch") @@ ("duck" :> "duckdb")

\* C24: get_backend resolves a backend name or a recognized alias,
\* case-insensitively, to a new instance of exactly one concrete backend class on
\* each call; a name that is neither registered nor an alias fails with an error
\* that enumerates the valid backend names, and no instance is created.
C24_GetBackendResolves ==
    /\ \A i \in 1..Len(calls) :
          IF Lower(calls[i].name) \in DOMAIN KnownNames
          THEN /\ calls[i].raised = NoError
               /\ calls[i].instance.class = KnownNames[Lower(calls[i].name)]
               /\ calls[i].instance.class \in BACKENDS
               /\ \A j \in 1..Len(calls) :
                     (j # i /\ calls[j].instance # NoInstance)
                        => calls[j].instance.oid # calls[i].instance.oid
          ELSE /\ calls[i].raised.error = "ValueError"
               /\ {calls[i].raised.available[k] :
                      k \in 1..Len(calls[i].raised.available)} = BACKENDS
               /\ calls[i].instance = NoInstance
    /\ Len(Returned(calls)) = Cardinality({calls[i].instance.oid : i \in 1..Len(calls)}
                                            \ {0})

\* "PG" and then "postgresql" gave two instances of the PostgreSQL class
C24_Witness ==
    /\ Len(calls) = 2
    /\ calls[1].name = "PG" /\ calls[2].name = "postgresql"
    /\ calls[1].instance.class = "postgres" /\ calls[2].instance.class = "postgres"
    /\ calls[1].instance.oid # calls[2].instance.oid
    /\ backend.name = "postgres"

-----------------------------------------------------------------------------
(* Claims about the flat loop *)

\* a session past its checks that runs in flat mode
FlatSession == pc # "idle" /\ Validated /\ ~(session.normalize /\ session.normalizer)

\* C25: in a flat-mode session, batches are generated and inserted one at a time:
\* batch k is passed to insert_batch before batch k+1 is generated, so at no point
\* does more than one generated-but-not-yet-inserted batch exist.
C25_OneBatchAtATime ==
    FlatSession =>
        /\ Len(yielded) - Len(InsertBatchCalls) \in {0, 1}
        /\ \A k \in 1..Len(InsertBatchCalls) : InsertBatchCalls[k].data = yielded[k]
        /\ Len(yielded) - Len(InsertBatchCalls) = 1 => pc = "flat_insert"
        /\ all_batches = <<>>

\* the second batch of a flat session is generated and not yet inserted, the
\* first was inserted before
C25_Witness ==
    /\ FlatSession
    /\ pc = "flat_insert"
    /\ Len(yielded) = 2
    /\ Len(InsertBatchCalls) = 1
    /\ InsertBatchCalls[1].data = yielded[1]
    /\ InsertBatchCalls[1].raised = None

-----------------------------------------------------------------------------
(* Claims about the session boundary *)

\* the calls that raised, the drop_table calls of the clear block apart
RaisedOperations == {i \in 1..Len(calls) : calls[i].raised # None /\ calls[i].op # "drop_table"}

\* C26: when any backend operation other than a clear-step drop raises during a
\* session, the session aborts: no further create or insert operation is invoked
\* afterwards (no call at all is made, so the failed operation is never retried),
\* the error is reported, and the session returns failure.
C26_RaiseAbortsSession ==
    \A i \in RaisedOperations :
        /\ i = Len(calls)
        /\ Failed
        /\ IF calls[i].raised = "ImportError"
           THEN Printed("Missing dependency") /\ ~Printed("Error")
           ELSE Printed("Error")

\* the second insert_batch of a session raised after the first returned
C26_Witness ==
    /\ Len(InsertBatchCalls) = 2
    /\ InsertBatchCalls[1].raised = None
    /\ InsertBatchCalls[2].raised = "Exception"
    /\ calls[Len(calls)].op = "insert_batch"
    /\ Failed
    /\ Printed("Error")

-----------------------------------------------------------------------------
(* Claims about the connection handle *)

\* the handles the driver has opened and not closed
LiveHandles == store.opened - store.closed

-----------------------------------------------------------------------------
(* Claims about termination *)

\* a generator suspended at the yield of an empty batch with records remaining:
\* the next() after it subtracts nothing and finds as many records remaining
GeneratorStuck ==
    /\ gen.at = "yield"
    /\ gen.batch_size <= 0
    /\ gen.current_batch <= 0
    /\ gen.remaining > 0
    /\ ~gen_stops(gen)
    /\ resumed(gen).remaining >= gen.remaining

\* a session in a loop over a stuck generator that nothing ends: list(...) in
\* normalized mode; in flat mode the loop whose progress division does not raise
NeverEnds ==
    /\ GeneratorStuck
    /\ \/ pc = "generate"
       \/ /\ pc \in {"flat", "flat_insert"}
          /\ total_batches(session.count, session.batch_size) # 0

\* C28: a seeding session terminates for every integer record count and batch
\* size that the CLI argument parser accepts, including a batch size of zero or
\* below: generate_batches yields finitely many batches and the session reaches
\* success or failure, in flat mode and in normalized mode. No session comes to a
\* state from which it can never end.
C28_SessionTerminates == ~NeverEnds

\* every step from a state of NeverEnds leads to a state of NeverEnds, none of
\* which is an end of the session
C28_NeverEndsIsClosed == [][NeverEnds => NeverEnds' /\ pc' # "done"]_vars

\* the same claim as a property of the runs in which every statement is executed
\* in its turn
C28_EventuallyDone == <>(pc = "done")

\* the sessions with a positive batch size terminate, whatever the count
C28_TerminatesWithPositiveBatchSize ==
    (pc # "idle" /\ session.batch_size >= 1) ~> (pc = "done")

\* a generator that stops has yielded at most count batches, none of them empty
C28_StoppedAfterCountBatches ==
    gen.at = "done" /\ pc # "idle" =>
        /\ Len(yielded) <= (IF session.count > 0 THEN session.count ELSE 0)
        /\ \A k \in 1..Len(yielded) : yielded[k] # <<>>

\* a session that has drawn more batches than records were asked for, from a
\* generator that is stuck, in normalized mode (the list is still being built)
C28_Witness ==
    /\ pc = "generate"
    /\ session.count = 1
    /\ session.batch_size = 0
    /\ Len(all_batches) > session.count
    /\ NeverEnds

\* the same in flat mode, with a negative batch size: every batch drawn is empty
\* and is handed to insert_batch
C28_FlatWitness ==
    /\ pc = "flat_insert"
    /\ session.count = 1
    /\ session.batch_size = -1
    /\ Len(yielded) > session.count
    /\ Len(InsertBatchCalls) >= 2
    /\ NeverEnds

-----------------------------------------------------------------------------
(* Claims about sessions re-run on the same database *)

\* the key column of the entity table a normalized table references
fk_key(schema_name) == IF schema_name = "manufacturing_orders" THEN "sku" ELSE "email"

\* the row references the stored entity whose email (or SKU) its record carried
\* (the notes of a record of these sessions repeat that email or SKU)
ReferencesOwnEntity(schema_name, row) ==
    \E i \in 1..Len(store[fk_table(schema_name)].rows) :
        /\ store[fk_table(schema_name)].rows[i]["id"] = row[fk_column(schema_name)]
        /\ store[fk_table(schema_name)].rows[i][fk_key(schema_name)] = row["notes"]

\* the normalized main tables the database holds
NormalizedTables == {t \in RunTypes : NormalizedName(t) \in DOMAIN store}

\* C29: after any sequence of normalized seeding sessions run without
\* clear-existing against the same relational backend, each session starting a
\* fresh normalizer at id 1 while the entity tables persist, no session raises on
\* entity insertion, and every row of the normalized main table references
\* through customer_id (or product_id) the stored entity row whose email (or SKU)
\* is the one its originating record carried.
C29_RerunKeepsReferences ==
    /\ \A i \in CallsOf({"insert_normalized_entities"}) : calls[i].raised = None
    /\ \A t \in NormalizedTables :
          \A k \in 1..Len(store[NormalizedName(t)].rows) :
              ReferencesOwnEntity(t, store[NormalizedName(t)].rows[k])

\* the same of the first session on an empty database
C29_HoldsInFirstSession ==
    (pc # "idle" /\ session.run = "first") => C29_RerunKeepsReferences

\* a second normalized session on MySQL has ended in success; the customers table
\* holds one row, of a@x with id 1, and the order the second session drew for b@x
\* is stored with customer_id 1
C29_Witness ==
    /\ Succeeded
    /\ session.run = "second"
    /\ backend.name = "mysql"
    /\ session.normalize
    /\ session.data_type = "sales_orders"
    /\ Len(store["customers"].rows) = 1
    /\ store["customers"].rows[1]["email"] = "a@x"
    /\ store["customers"].rows[1]["id"] = 1
    /\ \E k \in 1..Len(store["sales_orders_normalized"].rows) :
          /\ store["sales_orders_normalized"].rows[k]["notes"] = "b@x"
          /\ store["sales_orders_normalized"].rows[k]["customer_id"] = 1

\* a second normalized session on PostgreSQL has failed in
\* insert_normalized_entities
C29_RaiseWitness ==
    /\ Failed
    /\ session.run = "second"
    /\ backend.name = "postgres"
    /\ calls[Len(calls)].op = "insert_normalized_entities"
    /\ calls[Len(calls)].raised = "UniqueViolation"

-----------------------------------------------------------------------------
(* Claims about the columns of a batch *)

\* the names of the schema's fields
FieldNames(schema_name) ==
    {SCHEMAS[schema_name].fields[i].name : i \in 1..Len(SCHEMAS[schema_name].fields)}

\* the keys of a record in flat mode: every schema field except id
FlatKeys(schema_name) == FieldNames(schema_name) \ {"id"}

\* the keys of a record after extraction
NormalizedKeys(schema_name) ==
    CASE schema_name \in {"sales_orders", "invoices"} ->
            (FlatKeys(schema_name) \ {"customer_name", "customer_email", "customer_phone"})
            \cup {"customer_id"}
      [] schema_name = "manufacturing_orders" ->
            (FlatKeys(schema_name) \ {"product_name", "product_sku"}) \cup {"product_id"}
      [] OTHER -> FlatKeys(schema_name)

\* C30: all records of any batch handed to insert_batch within a session have the
\* same key set (in flat mode every schema field except id, a nullable field drawn
\* as NULL being kept as a key with a null value; in normalized mode the same set
\* after extraction), so the column list that the relational backends derive from
\* the first record of a batch covers every record of that batch with no value
\* dropped or misplaced.
C30_BatchHasOneKeySet ==
    pc = "done" =>
        \A i \in 1..Len(ins.batch) :
            /\ DOMAIN ins.batch[i] = DOMAIN ins.batch[1]
            /\ DOMAIN ins.batch[i] = IF session.normalize
                                     THEN NormalizedKeys(session.data_type)
                                     ELSE FlatKeys(session.data_type)
            /\ DOMAIN ins.batch[i] \subseteq ins.columns
            /\ \A c \in ins.columns \ {"id"} :
                  c \in DOMAIN ins.batch[i] /\ ins.rows[i][c] = ins.batch[i][c]

\* a normalized batch of two sales orders of one customer, the first with its
\* notes drawn NULL and the second with notes, has reached the INSERT
C30_Witness ==
    /\ pc = "done"
    /\ session.normalize
    /\ session.data_type = "sales_orders"
    /\ Len(ins.batch) = 2
    /\ yielded[1][1]["notes"] = None
    /\ yielded[1][2]["notes"] = "v"
    /\ yielded[1][1]["customer_email"] = yielded[1][2]["customer_email"]
    /\ ins.rows[1]["notes"] = None
    /\ ins.rows[2]["notes"] = "v"
    /\ ins.rows[1]["customer_id"] = 1
    /\ ins.rows[2]["customer_id"] = 1

====
